---- MODULE Spec2Model ----
(***************************************************************************)
(* A model of the TDT benchmark harness: scripts/benchmark.py (the         *)
(* benchmark driver) and scripts/generate_baseline.py (the baseline        *)
(* fixture generator).                                                     *)
(*                                                                         *)
(* These specifications share the module:                                  *)
(*   Spec       the two top-level programs' main()                         *)
(*   SpecGen    the five entity generators, row by row                     *)
(*   SpecCsv    write_csv (csv.DictWriter with extrasaction='ignore')      *)
(*   SpecRound  round(random.uniform(lo, hi), nd) of generate_components   *)
(*   SpecRows   the rows either program produces: the generators, two rows *)
(*              of one large batch of components, the baseline tables      *)
(*   SpecRate   the implied throughput of a phase                          *)
(*                                                                         *)
(* Python values are tagged records (PyS, PyI, PyF) so that a row can hold *)
(* strings, integers and decimals, and str() is a real conversion.         *)
(* Decimals are fixed point: PyF(n, k) is n / 10^k.                        *)
(***************************************************************************)
EXTENDS Integers, Sequences, FiniteSets, TLC

VARIABLES
    prog,       \* which program runs: "benchmark" or "baseline"
    pc,         \* position in main()
    idx,        \* index of the current element of the loop main() is in
    dirs,       \* directories that exist
    files,      \* path -> what write_csv left there
    cwd,        \* current working directory of the process
    child,      \* command line of the child process in flight, or NoChild
    start,      \* run_timed's local start
    now,        \* time.perf_counter(), in ticks
    invoked,    \* subprocess.run calls so far: [cmd, cwd]
    exits,      \* exit statuses of the calls that returned
    results,    \* main()'s results list: [label, elapsed, ok]
    summary,    \* the printed summary block, or NoSummary
    exitCode,   \* the process's exit status once it has ended, else Running
    toolBase,   \* the exit status the target tool usually returns
    gKind,      \* SpecGen: generator under test
    gN,         \* SpecGen: its argument n
    gRows,      \* SpecGen: its local rows
    gPc,        \* SpecGen: "loop", "returned", or "idle"
    wHeaders,   \* SpecCsv: headers argument
    wRows,      \* SpecCsv: rows argument
    wOut,       \* SpecCsv: the file's rows of cells, or NotWritten
    uKind,      \* SpecRound: "mass" or "cost"
    uDraw,      \* SpecRound: random.uniform's result, in sub-steps
    uOut,       \* SpecRound: round()'s result, in sub-steps, or NotRounded
    tCount,     \* SpecRate: the entity count of a phase
    tElapsed,   \* SpecRate: the phase's elapsed time, in ticks
    tRate       \* SpecRate: the rate computed from them, or NoRate

mainVars == <<prog, pc, idx, dirs, files, cwd, child, start, now, invoked,
              exits, results, summary, exitCode, toolBase>>
genVars == <<gKind, gN, gRows, gPc>>
csvVars == <<wHeaders, wRows, wOut>>
roundVars == <<uKind, uDraw, uOut>>
rateVars == <<tCount, tElapsed, tRate>>
vars == <<mainVars, genVars, csvVars, roundVars, rateVars>>

(***************************************************************************)
(* Bounds of the model                                                     *)
(***************************************************************************)
\* Departures of one run from a uniform, instantaneous tool: invocations
\* whose exit status differs from toolBase, plus clock ticks elapsed.
MaxPerturb == 2
\* Largest n a generator is called with in SpecGen.
MaxCount == 3
\* Per loop iteration, the random draws are taken from a window of the pool
\* that starts at an offset in 0..MaxDraw.
MaxDraw == 9
\* SpecCsv: most rows handed to write_csv.
MaxRows == 2
\* SpecRound: sub-steps of the uniform draw per unit of the last kept decimal.
SubSteps == 4
\* SpecRows: of a large batch of components, the iterations followed are the
\* first PnWindow + 1 and those within PnWindow of the five-digit suffixes.
PnWindow == 2
\* SpecRate: elapsed times range over -MaxElapsed..MaxElapsed ticks.
MaxElapsed == 4

(***************************************************************************)
(* Python values and str()                                                 *)
(***************************************************************************)
PyS(s) == [t |-> "str", s |-> s, n |-> 0, k |-> 0]
PyI(n) == [t |-> "int", s |-> "", n |-> n, k |-> 0]
PyF(n, k) == [t |-> "float", s |-> "", n |-> n, k |-> k]

RECURSIVE Pow10(_)
Pow10(k) == IF k = 0 THEN 1 ELSE 10 * Pow10(k - 1)

RECURSIVE NumDigits(_)
NumDigits(n) == IF n < 10 THEN 1 ELSE 1 + NumDigits(n \div 10)

RECURSIVE Zeros(_)
Zeros(w) == IF w <= 0 THEN "" ELSE "0" \o Zeros(w - 1)

\* mutant: exactly w digits, the higher ones cut off
ZeroPadCut(n, w) ==
    Zeros(w - NumDigits(n % Pow10(w))) \o ToString(n % Pow10(w))

\* format(n, "0<w>d"): at least w digits, zero padded, never truncated
ZeroPad(n, w) == Zeros(w - NumDigits(n)) \o ToString(n)

\* the fraction digits of repr(float): trailing zeros dropped, one digit kept
RECURSIVE FracDigits(_, _)
FracDigits(f, k) ==
    IF k > 1 /\ f % 10 = 0 THEN FracDigits(f \div 10, k - 1) ELSE ZeroPad(f, k)

\* str(v) as csv.writer applies it to a cell
PyStr(v) ==
    CASE v.t = "str" -> v.s
      [] v.t = "int" -> ToString(v.n)
      [] v.t = "float" ->
            IF v.k = 0 THEN ToString(v.n) \o ".0"
            ELSE ToString(v.n \div Pow10(v.k)) \o "." \o FracDigits(v.n % Pow10(v.k), v.k)

(***************************************************************************)
(* benchmark.py: configuration and sample data pools                       *)
(***************************************************************************)
NUM_REQUIREMENTS == 500
NUM_COMPONENTS == 200
NUM_RISKS == 100
NUM_TESTS == 150
NUM_SUPPLIERS == 20

\* sys.argv[1] resolved, or the bare name
TDT_BIN == "tdt"

CATEGORIES ==
    <<"performance", "safety", "environmental", "electrical", "mechanical",
      "thermal", "reliability", "interface">>

PRIORITIES ==
    <<"critical", "high", "medium", "low">>

STATUSES ==
    <<"draft", "approved", "review">>

REQ_TYPES ==
    <<"input", "output">>

RISK_TYPES ==
    <<"design", "process">>

TEST_TYPES ==
    <<"verification", "validation">>

TEST_LEVELS ==
    <<"unit", "integration", "system", "acceptance">>

TEST_METHODS ==
    <<"test", "inspection", "analysis", "demonstration">>

MAKE_BUY ==
    <<"make", "buy", "buy", "buy">>

CMP_CATEGORIES ==
    <<"mechanical", "electrical", "fastener", "consumable">>

ADJECTIVES ==
    <<"Primary", "Secondary", "Auxiliary", "Main", "Critical", "Standard",
      "Enhanced", "Advanced", "Basic", "Core">>

NOUNS_REQ ==
    <<"Temperature", "Pressure", "Speed", "Force", "Voltage", "Current",
      "Power", "Torque", "Flow", "Position", "Accuracy", "Repeatability",
      "Response", "Bandwidth", "Efficiency", "Life", "Weight", "Size", "Cost",
      "Noise">>

NOUNS_CMP ==
    <<"Housing", "Bracket", "Shaft", "Bearing", "Seal", "Motor", "Sensor",
      "Controller", "Connector", "Cable", "Screw", "Nut", "Washer", "Spring",
      "Plate", "Cover", "Frame", "Mount", "Clip", "Gasket">>

NOUNS_RISK ==
    <<"Failure", "Degradation", "Wear", "Corrosion", "Fatigue", "Overload",
      "Misalignment", "Contamination", "Overheating", "Short Circuit",
      "Leakage", "Vibration", "Noise", "Drift", "Interference">>

\* str.lower() on the nouns it is applied to
Lower(s) ==
    CASE s = "Temperature" -> "temperature"
      [] s = "Pressure" -> "pressure"
      [] s = "Speed" -> "speed"
      [] s = "Force" -> "force"
      [] s = "Voltage" -> "voltage"
      [] s = "Current" -> "current"
      [] s = "Power" -> "power"
      [] s = "Torque" -> "torque"
      [] s = "Flow" -> "flow"
      [] s = "Position" -> "position"
      [] s = "Accuracy" -> "accuracy"
      [] s = "Repeatability" -> "repeatability"
      [] s = "Response" -> "response"
      [] s = "Bandwidth" -> "bandwidth"
      [] s = "Efficiency" -> "efficiency"
      [] s = "Life" -> "life"
      [] s = "Weight" -> "weight"
      [] s = "Size" -> "size"
      [] s = "Cost" -> "cost"
      [] s = "Noise" -> "noise"
      [] s = "Failure" -> "failure"
      [] s = "Degradation" -> "degradation"
      [] s = "Wear" -> "wear"
      [] s = "Corrosion" -> "corrosion"
      [] s = "Fatigue" -> "fatigue"
      [] s = "Overload" -> "overload"
      [] s = "Misalignment" -> "misalignment"
      [] s = "Contamination" -> "contamination"
      [] s = "Overheating" -> "overheating"
      [] s = "Short Circuit" -> "short circuit"
      [] s = "Leakage" -> "leakage"
      [] s = "Vibration" -> "vibration"
      [] s = "Drift" -> "drift"
      [] s = "Interference" -> "interference"

(***************************************************************************)
(* The random module.  A loop iteration's draws are indexed by the offset  *)
(* k chosen for the iteration and the position j of the call in it.        *)
(***************************************************************************)
Draw(k, j) == k * (2 * j + 1) + j - 1

\* random.choice(pool)
Choice(pool, r) == pool[(r % Len(pool)) + 1]

\* mutant: one value past the upper end
RandIntPastEnd(a, b, r) == a + (r % (b - a + 2))

\* random.randint(a, b): both ends included
RandInt(a, b, r) == a + (r % (b - a + 1))

\* random.uniform(lo, hi) = lo + (hi - lo) * random(), here with
\* random() = k / MaxDraw; the result may or may not reach hi.
Uniform(lo, hi, k) == lo + ((hi - lo) * k) \div MaxDraw

\* round(x, nd) of a float: to the nearest, an exact tie to the even neighbour.
\* x is in sub-steps of the last kept decimal; so is the result.
RoundNd(x) ==
    LET q == x \div SubSteps
        r == x % SubSteps
        n == IF 2 * r < SubSteps THEN q
             ELSE IF 2 * r > SubSteps THEN q + 1
             ELSE IF q % 2 = 0 THEN q ELSE q + 1
    IN  n * SubSteps

\* bounds of the uniform draws of generate_components, in units of the last
\* decimal round() keeps: mass in 0.001, cost in 0.01
MassLo == 10
MassHi == 2000
CostLo == 50
CostHi == 15000

\* mutant: the mass rounded to one decimal instead of three
RoundMassOneDecimal(x) ==
    LET s == 100 * SubSteps
    IN  ((2 * x + s) \div (2 * s)) * s

\* round(random.uniform(0.01, 2.0), 3) given the uniform draw
RoundMass(x) == RoundNd(x)
\* round(random.uniform(0.50, 150.0), 2) given the uniform draw
RoundCost(x) == RoundNd(x)

(***************************************************************************)
(* The entity generators: the row appended by loop iteration i (from 0)    *)
(* whose draws have offset k, and the list after n iterations.             *)
(***************************************************************************)
RequirementRow(i, k) ==
    LET adj == Choice(ADJECTIVES, Draw(k, 1))
        noun == Choice(NOUNS_REQ, Draw(k, 2))
        cat == Choice(CATEGORIES, Draw(k, 3))
    IN  [title |-> PyS(adj \o " " \o noun \o " Requirement " \o ToString(i + 1)),
         type |-> PyS(Choice(REQ_TYPES, Draw(k, 4))),
         priority |-> PyS(Choice(PRIORITIES, Draw(k, 5))),
         status |-> PyS(Choice(STATUSES, Draw(k, 6))),
         category |-> PyS(cat),
         text |-> PyS("The system shall meet " \o Lower(noun)
                      \o " requirements for " \o cat \o " performance."),
         rationale |-> PyS("Required for " \o cat
                           \o " compliance and system performance."),
         tags |-> PyS(cat \o "," \o Choice(PRIORITIES, Draw(k, 7)))]

ComponentRow(i, k) ==
    LET adj == Choice(ADJECTIVES, Draw(k, 1))
        noun == Choice(NOUNS_CMP, Draw(k, 2))
        mb == Choice(MAKE_BUY, Draw(k, 3))
        cat == Choice(CMP_CATEGORIES, Draw(k, 4))
        mass == RoundMass(Uniform(MassLo * SubSteps, MassHi * SubSteps, k))
        cost == RoundCost(Uniform(CostLo * SubSteps, CostHi * SubSteps, MaxDraw - k))
    IN  [part_number |-> PyS("PN-" \o ZeroPad(i + 1, 4)),
         title |-> PyS(adj \o " " \o noun \o " " \o ToString(i + 1)),
         make_buy |-> PyS(mb),
         category |-> PyS(cat),
         description |-> PyS(adj \o " " \o noun \o " for system assembly"),
         material |-> PyS("Various"),
         finish |-> PyS("Standard"),
         mass |-> PyF(mass \div SubSteps, 3),
         cost |-> PyF(cost \div SubSteps, 2),
         tags |-> PyS(cat \o "," \o mb)]

\* mutant: the row with a risk priority number of its own
RiskRowWithRpn(i, k) ==
    [title |-> PyS("Risk " \o ToString(i + 1)),
     type |-> PyS(Choice(RISK_TYPES, Draw(k, 3))),
     category |-> PyS(Choice(CATEGORIES, Draw(k, 2))),
     description |-> PyS("Potential failure"),
     failure_mode |-> PyS("Failure during operation"),
     cause |-> PyS("Design or process deficiency"),
     effect |-> PyS("System failure"),
     severity |-> PyI(RandInt(1, 10, Draw(k, 4))),
     occurrence |-> PyI(RandInt(1, 10, Draw(k, 5))),
     detection |-> PyI(RandInt(1, 10, Draw(k, 6))),
     rpn |-> PyI(RandInt(1, 10, Draw(k, 4)) * RandInt(1, 10, Draw(k, 5))
                 * RandInt(1, 10, Draw(k, 6))),
     tags |-> PyS(Choice(CATEGORIES, Draw(k, 2)))]

RiskRow(i, k) ==
    LET noun == Choice(NOUNS_RISK, Draw(k, 1))
        cat == Choice(CATEGORIES, Draw(k, 2))
        rtype == Choice(RISK_TYPES, Draw(k, 3))
        sev == RandInt(1, 10, Draw(k, 4))
        occ == RandInt(1, 10, Draw(k, 5))
        det == RandInt(1, 10, Draw(k, 6))
    IN  [title |-> PyS(noun \o " Risk " \o ToString(i + 1)),
         type |-> PyS(rtype),
         category |-> PyS(cat),
         description |-> PyS("Potential " \o Lower(noun) \o " in " \o cat \o " subsystem"),
         failure_mode |-> PyS(noun \o " during operation"),
         cause |-> PyS("Design or process deficiency in " \o cat \o " area"),
         effect |-> PyS("System " \o Lower(noun)
                        \o " leading to performance degradation"),
         severity |-> PyI(sev),
         occurrence |-> PyI(occ),
         detection |-> PyI(det),
         tags |-> PyS(cat \o "," \o rtype)]

TestRow(i, k) ==
    LET adj == Choice(ADJECTIVES, Draw(k, 1))
        noun == Choice(NOUNS_REQ, Draw(k, 2))
        cat == Choice(CATEGORIES, Draw(k, 3))
        ttype == Choice(TEST_TYPES, Draw(k, 4))
    IN  [title |-> PyS(adj \o " " \o noun \o " Test " \o ToString(i + 1)),
         type |-> PyS(ttype),
         level |-> PyS(Choice(TEST_LEVELS, Draw(k, 5))),
         method |-> PyS(Choice(TEST_METHODS, Draw(k, 6))),
         category |-> PyS(cat),
         priority |-> PyS(Choice(PRIORITIES, Draw(k, 7))),
         objective |-> PyS("Verify " \o Lower(noun)
                           \o " performance meets specification"),
         description |-> PyS("Test procedure for " \o Lower(noun) \o " " \o cat
                             \o " requirements"),
         estimated_duration |-> PyS(ToString(RandInt(15, 480, Draw(k, 8))) \o " min"),
         tags |-> PyS(cat \o "," \o ttype)]

SupplierRow(i, k) ==
    [name |-> PyS("Supplier Company " \o ToString(i + 1)),
     short_name |-> PyS("SUP" \o ZeroPad(i + 1, 2)),
     category |-> PyS(Choice(CMP_CATEGORIES, Draw(k, 1))),
     contact_name |-> PyS("Contact " \o ToString(i + 1)),
     contact_email |-> PyS("contact" \o ToString(i + 1) \o "@supplier"
                           \o ToString(i + 1) \o ".example"),
     contact_phone |-> PyS("+1-555-" \o ZeroPad(i + 1, 4)),
     website |-> PyS("https://supplier" \o ToString(i + 1) \o ".example"),
     tags |-> PyS(Choice(CMP_CATEGORIES, Draw(k, 2)))]

\* "for i in range(n): rows.append(...)" run to its end, the draws of
\* iteration i having offset ks[i + 1]; range(n) is empty for n <= 0.
generate_requirements(n, ks) == [j \in 1..n |-> RequirementRow(j - 1, ks[j])]
generate_components(n, ks) == [j \in 1..n |-> ComponentRow(j - 1, ks[j])]
generate_risks(n, ks) == [j \in 1..n |-> RiskRow(j - 1, ks[j])]
generate_tests(n, ks) == [j \in 1..n |-> TestRow(j - 1, ks[j])]
generate_suppliers(n, ks) == [j \in 1..n |-> SupplierRow(j - 1, ks[j])]

(***************************************************************************)
(* generate_baseline.py: the static tables                                 *)
(***************************************************************************)
OUTPUT_DIR == "baseline_csvs"

REQUIREMENTS == <<
    [title |-> PyS("Stroke Length"),
     type |-> PyS("input"),
     priority |-> PyS("critical"),
     status |-> PyS("approved"),
     text |-> PyS("The actuator shall have a stroke length of 150mm ± 1mm"),
     category |-> PyS("performance"),
     rationale |-> PyS("Required for full range of motion in target application"),
     tags |-> PyS("mechanical,critical")],
    [title |-> PyS("Maximum Force"),
     type |-> PyS("input"),
     priority |-> PyS("critical"),
     status |-> PyS("approved"),
     text |-> PyS("The actuator shall produce a minimum of 500N continuous force"),
     category |-> PyS("performance"),
     rationale |-> PyS("Load requirements from customer specification"),
     tags |-> PyS("mechanical,force")],
    [title |-> PyS("Speed Range"),
     type |-> PyS("input"),
     priority |-> PyS("high"),
     status |-> PyS("approved"),
     text |-> PyS("The actuator shall achieve speeds from 5mm/s to 50mm/s"),
     category |-> PyS("performance"),
     rationale |-> PyS("Variable speed required for different operating modes"),
     tags |-> PyS("mechanical,speed")],
    [title |-> PyS("Positioning Accuracy"),
     type |-> PyS("input"),
     priority |-> PyS("high"),
     status |-> PyS("approved"),
     text |-> PyS("Position repeatability shall be ±0.1mm"),
     category |-> PyS("performance"),
     rationale |-> PyS("Precision positioning required for automation application"),
     tags |-> PyS("mechanical,precision")],
    [title |-> PyS("Duty Cycle"),
     type |-> PyS("input"),
     priority |-> PyS("medium"),
     status |-> PyS("approved"),
     text |-> PyS("The actuator shall operate at 25% duty cycle minimum"),
     category |-> PyS("performance"),
     rationale |-> PyS("Industrial application requires sustained operation"),
     tags |-> PyS("electrical,thermal")],
    [title |-> PyS("Operating Temperature"),
     type |-> PyS("input"),
     priority |-> PyS("high"),
     status |-> PyS("approved"),
     text |-> PyS("The actuator shall operate from -20°C to +50°C ambient"),
     category |-> PyS("environmental"),
     rationale |-> PyS("Industrial environment temperature range"),
     tags |-> PyS("environmental,thermal")],
    [title |-> PyS("IP Rating"),
     type |-> PyS("input"),
     priority |-> PyS("high"),
     status |-> PyS("approved"),
     text |-> PyS("The actuator shall meet IP65 ingress protection"),
     category |-> PyS("environmental"),
     rationale |-> PyS("Protection against dust and water jets required"),
     tags |-> PyS("environmental,sealing")],
    [title |-> PyS("Vibration Resistance"),
     type |-> PyS("input"),
     priority |-> PyS("medium"),
     status |-> PyS("approved"),
     text |-> PyS("The actuator shall withstand 2G vibration 10-500Hz"),
     category |-> PyS("environmental"),
     rationale |-> PyS("Mounted on vibrating machinery"),
     tags |-> PyS("environmental,mechanical")],
    [title |-> PyS("EMC Compliance"),
     type |-> PyS("input"),
     priority |-> PyS("medium"),
     status |-> PyS("approved"),
     text |-> PyS("The actuator shall comply with EN 61000-6-2 and EN 61000-6-4"),
     category |-> PyS("environmental"),
     rationale |-> PyS("Required for CE marking"),
     tags |-> PyS("electrical,regulatory")],
    [title |-> PyS("Input Voltage"),
     type |-> PyS("input"),
     priority |-> PyS("critical"),
     status |-> PyS("approved"),
     text |-> PyS("The actuator shall operate from 24VDC ±10%"),
     category |-> PyS("electrical"),
     rationale |-> PyS("Standard industrial control voltage"),
     tags |-> PyS("electrical,power")],
    [title |-> PyS("Power Consumption"),
     type |-> PyS("input"),
     priority |-> PyS("medium"),
     status |-> PyS("approved"),
     text |-> PyS("Maximum power consumption shall not exceed 150W"),
     category |-> PyS("electrical"),
     rationale |-> PyS("Power budget constraint from system design"),
     tags |-> PyS("electrical,power")],
    [title |-> PyS("Control Interface"),
     type |-> PyS("input"),
     priority |-> PyS("high"),
     status |-> PyS("approved"),
     text |-> PyS("The actuator shall provide RS-485 Modbus RTU interface"),
     category |-> PyS("electrical"),
     rationale |-> PyS("Integration with industrial PLCs"),
     tags |-> PyS("electrical,interface")],
    [title |-> PyS("Feedback Signal"),
     type |-> PyS("input"),
     priority |-> PyS("high"),
     status |-> PyS("approved"),
     text |-> PyS("The actuator shall provide analog 0-10V position feedback"),
     category |-> PyS("electrical"),
     rationale |-> PyS("Closed-loop position control requirement"),
     tags |-> PyS("electrical,feedback")],
    [title |-> PyS("Mounting Interface"),
     type |-> PyS("input"),
     priority |-> PyS("medium"),
     status |-> PyS("approved"),
     text |-> PyS("The actuator shall have ISO 15552 compliant mounting"),
     category |-> PyS("mechanical"),
     rationale |-> PyS("Standard mounting for easy integration"),
     tags |-> PyS("mechanical,interface")],
    [title |-> PyS("Rod End Connection"),
     type |-> PyS("input"),
     priority |-> PyS("medium"),
     status |-> PyS("approved"),
     text |-> PyS("The actuator rod shall have M10x1.25 male thread"),
     category |-> PyS("mechanical"),
     rationale |-> PyS("Standard thread for load attachment"),
     tags |-> PyS("mechanical,interface")],
    [title |-> PyS("Weight Limit"),
     type |-> PyS("input"),
     priority |-> PyS("low"),
     status |-> PyS("approved"),
     text |-> PyS("Total actuator weight shall not exceed 3.5kg"),
     category |-> PyS("mechanical"),
     rationale |-> PyS("Installation handling requirement"),
     tags |-> PyS("mechanical,weight")],
    [title |-> PyS("Overload Protection"),
     type |-> PyS("input"),
     priority |-> PyS("critical"),
     status |-> PyS("approved"),
     text |-> PyS("The actuator shall detect and respond to overload within 100ms"),
     category |-> PyS("safety"),
     rationale |-> PyS("Prevent damage from obstruction or jamming"),
     tags |-> PyS("safety,protection")],
    [title |-> PyS("Limit Switches"),
     type |-> PyS("input"),
     priority |-> PyS("high"),
     status |-> PyS("approved"),
     text |-> PyS("The actuator shall have adjustable end-of-travel limits"),
     category |-> PyS("safety"),
     rationale |-> PyS("Prevent mechanical over-travel damage"),
     tags |-> PyS("safety,mechanical")],
    [title |-> PyS("Manual Override"),
     type |-> PyS("input"),
     priority |-> PyS("medium"),
     status |-> PyS("approved"),
     text |-> PyS("The actuator shall allow manual movement when unpowered"),
     category |-> PyS("safety"),
     rationale |-> PyS("Emergency release capability"),
     tags |-> PyS("safety,manual")],
    [title |-> PyS("Design Life"),
     type |-> PyS("input"),
     priority |-> PyS("high"),
     status |-> PyS("approved"),
     text |-> PyS("The actuator shall achieve 1 million full stroke cycles minimum"),
     category |-> PyS("reliability"),
     rationale |-> PyS("5-year service life at expected usage rate"),
     tags |-> PyS("reliability,life")],
    [title |-> PyS("MTBF"),
     type |-> PyS("input"),
     priority |-> PyS("medium"),
     status |-> PyS("approved"),
     text |-> PyS("MTBF shall exceed 50,000 operating hours"),
     category |-> PyS("reliability"),
     rationale |-> PyS("Industrial reliability requirement"),
     tags |-> PyS("reliability,mtbf")],
    [title |-> PyS("Motor Selection"),
     type |-> PyS("output"),
     priority |-> PyS("high"),
     status |-> PyS("approved"),
     text |-> PyS("Motor shall be NEMA 23 brushless DC, minimum 0.5Nm continuous torque"),
     category |-> PyS("electrical"),
     rationale |-> PyS("Derived from force and speed requirements"),
     tags |-> PyS("electrical,motor")],
    [title |-> PyS("Lead Screw Pitch"),
     type |-> PyS("output"),
     priority |-> PyS("high"),
     status |-> PyS("approved"),
     text |-> PyS("Lead screw pitch shall be 5mm for optimal speed/force tradeoff"),
     category |-> PyS("mechanical"),
     rationale |-> PyS("Calculated from speed and force requirements"),
     tags |-> PyS("mechanical,drivetrain")],
    [title |-> PyS("Bearing Selection"),
     type |-> PyS("output"),
     priority |-> PyS("medium"),
     status |-> PyS("approved"),
     text |-> PyS("Support bearings shall be angular contact with C3 clearance"),
     category |-> PyS("mechanical"),
     rationale |-> PyS("Required for axial load and temperature range"),
     tags |-> PyS("mechanical,bearings")],
    [title |-> PyS("Seal Design"),
     type |-> PyS("output"),
     priority |-> PyS("high"),
     status |-> PyS("approved"),
     text |-> PyS("Rod seal shall be double-lip NBR with dust wiper"),
     category |-> PyS("mechanical"),
     rationale |-> PyS("Required for IP65 rating at operating temperature"),
     tags |-> PyS("mechanical,sealing")]
>>

COMPONENTS == <<
    [part_number |-> PyS("LA-HSG-001"),
     title |-> PyS("Main Housing"),
     make_buy |-> PyS("make"),
     category |-> PyS("mechanical"),
     description |-> PyS("Extruded aluminum housing with machined features"),
     material |-> PyS("6063-T6 Aluminum"),
     finish |-> PyS("Clear anodize"),
     mass |-> PyF(850, 3),
     cost |-> PyF(4500, 2),
     tags |-> PyS("structural,machined")],
    [part_number |-> PyS("LA-CAP-001"),
     title |-> PyS("Front End Cap"),
     make_buy |-> PyS("make"),
     category |-> PyS("mechanical"),
     description |-> PyS("Machined end cap with seal groove and bearing bore"),
     material |-> PyS("6061-T6 Aluminum"),
     finish |-> PyS("Clear anodize"),
     mass |-> PyF(120, 3),
     cost |-> PyF(1800, 2),
     tags |-> PyS("structural,machined")],
    [part_number |-> PyS("LA-CAP-002"),
     title |-> PyS("Rear End Cap"),
     make_buy |-> PyS("make"),
     category |-> PyS("mechanical"),
     description |-> PyS("Machined end cap with motor mount and bearing bore"),
     material |-> PyS("6061-T6 Aluminum"),
     finish |-> PyS("Clear anodize"),
     mass |-> PyF(180, 3),
     cost |-> PyF(2200, 2),
     tags |-> PyS("structural,machined")],
    [part_number |-> PyS("LA-ROD-001"),
     title |-> PyS("Extension Rod"),
     make_buy |-> PyS("make"),
     category |-> PyS("mechanical"),
     description |-> PyS("Ground and chrome plated piston rod"),
     material |-> PyS("1045 Steel"),
     finish |-> PyS("Hard chrome"),
     mass |-> PyF(340, 3),
     cost |-> PyF(3500, 2),
     tags |-> PyS("precision,ground")],
    [part_number |-> PyS("LA-NUT-001"),
     title |-> PyS("Lead Screw Nut"),
     make_buy |-> PyS("make"),
     category |-> PyS("mechanical"),
     description |-> PyS("Bronze lead screw nut with anti-backlash feature"),
     material |-> PyS("C93200 Bronze"),
     finish |-> PyS("As machined"),
     mass |-> PyF(85, 3),
     cost |-> PyF(2800, 2),
     tags |-> PyS("precision,wear")],
    [part_number |-> PyS("LA-SCR-001"),
     title |-> PyS("Lead Screw"),
     make_buy |-> PyS("buy"),
     category |-> PyS("mechanical"),
     description |-> PyS("Precision ground lead screw Tr16x5"),
     material |-> PyS("1045 Steel hardened"),
     finish |-> PyS("Black oxide"),
     mass |-> PyF(420, 3),
     cost |-> PyF(6500, 2),
     tags |-> PyS("precision,drivetrain")],
    [part_number |-> PyS("LA-BRG-001"),
     title |-> PyS("Front Bearing"),
     make_buy |-> PyS("buy"),
     category |-> PyS("mechanical"),
     description |-> PyS("Angular contact bearing 6002-2RS"),
     material |-> PyS("52100 Steel"),
     finish |-> PyS("Standard"),
     mass |-> PyF(32, 3),
     cost |-> PyF(850, 2),
     tags |-> PyS("bearing,precision")],
    [part_number |-> PyS("LA-BRG-002"),
     title |-> PyS("Rear Bearing"),
     make_buy |-> PyS("buy"),
     category |-> PyS("mechanical"),
     description |-> PyS("Deep groove bearing 6003-2RS"),
     material |-> PyS("52100 Steel"),
     finish |-> PyS("Standard"),
     mass |-> PyF(42, 3),
     cost |-> PyF(650, 2),
     tags |-> PyS("bearing,support")],
    [part_number |-> PyS("LA-SEL-001"),
     title |-> PyS("Rod Seal"),
     make_buy |-> PyS("buy"),
     category |-> PyS("mechanical"),
     description |-> PyS("Double-lip rod seal 16x24x7"),
     material |-> PyS("NBR rubber"),
     finish |-> PyS("Standard"),
     mass |-> PyF(8, 3),
     cost |-> PyF(325, 2),
     tags |-> PyS("seal,wear")],
    [part_number |-> PyS("LA-SEL-002"),
     title |-> PyS("Dust Wiper"),
     make_buy |-> PyS("buy"),
     category |-> PyS("mechanical"),
     description |-> PyS("Polyurethane dust wiper 16x22x4"),
     material |-> PyS("Polyurethane"),
     finish |-> PyS("Standard"),
     mass |-> PyF(4, 3),
     cost |-> PyF(185, 2),
     tags |-> PyS("seal,protection")],
    [part_number |-> PyS("LA-ORI-001"),
     title |-> PyS("End Cap O-Ring"),
     make_buy |-> PyS("buy"),
     category |-> PyS("mechanical"),
     description |-> PyS("Static O-ring 45x3.5 NBR 70A"),
     material |-> PyS("NBR rubber"),
     finish |-> PyS("Standard"),
     mass |-> PyF(6, 3),
     cost |-> PyF(45, 2),
     tags |-> PyS("seal,static")],
    [part_number |-> PyS("LA-MOT-001"),
     title |-> PyS("BLDC Motor"),
     make_buy |-> PyS("buy"),
     category |-> PyS("electrical"),
     description |-> PyS("NEMA 23 brushless DC motor 24V 0.6Nm"),
     material |-> PyS("Various"),
     finish |-> PyS("Black powder coat"),
     mass |-> PyF(580, 3),
     cost |-> PyF(8500, 2),
     tags |-> PyS("motor,drivetrain")],
    [part_number |-> PyS("LA-ENC-001"),
     title |-> PyS("Rotary Encoder"),
     make_buy |-> PyS("buy"),
     category |-> PyS("electrical"),
     description |-> PyS("Incremental encoder 1000 PPR"),
     material |-> PyS("Various"),
     finish |-> PyS("Standard"),
     mass |-> PyF(45, 3),
     cost |-> PyF(2800, 2),
     tags |-> PyS("sensor,feedback")],
    [part_number |-> PyS("LA-DRV-001"),
     title |-> PyS("Motor Driver"),
     make_buy |-> PyS("buy"),
     category |-> PyS("electrical"),
     description |-> PyS("BLDC motor driver module 24V 10A"),
     material |-> PyS("PCB assembly"),
     finish |-> PyS("Conformal coat"),
     mass |-> PyF(65, 3),
     cost |-> PyF(4200, 2),
     tags |-> PyS("electronics,control")],
    [part_number |-> PyS("LA-LIM-001"),
     title |-> PyS("Limit Switch"),
     make_buy |-> PyS("buy"),
     category |-> PyS("electrical"),
     description |-> PyS("Micro limit switch with lever"),
     material |-> PyS("Various"),
     finish |-> PyS("Standard"),
     mass |-> PyF(12, 3),
     cost |-> PyF(280, 2),
     tags |-> PyS("sensor,safety")],
    [part_number |-> PyS("LA-CON-001"),
     title |-> PyS("Power Connector"),
     make_buy |-> PyS("buy"),
     category |-> PyS("electrical"),
     description |-> PyS("M12 4-pin power connector IP67"),
     material |-> PyS("Brass/plastic"),
     finish |-> PyS("Nickel plate"),
     mass |-> PyF(25, 3),
     cost |-> PyF(850, 2),
     tags |-> PyS("connector,interface")],
    [part_number |-> PyS("LA-CON-002"),
     title |-> PyS("Signal Connector"),
     make_buy |-> PyS("buy"),
     category |-> PyS("electrical"),
     description |-> PyS("M12 8-pin signal connector IP67"),
     material |-> PyS("Brass/plastic"),
     finish |-> PyS("Nickel plate"),
     mass |-> PyF(28, 3),
     cost |-> PyF(1200, 2),
     tags |-> PyS("connector,interface")],
    [part_number |-> PyS("LA-FST-001"),
     title |-> PyS("End Cap Screws"),
     make_buy |-> PyS("buy"),
     category |-> PyS("fastener"),
     description |-> PyS("M4x12 socket head cap screw A2-70"),
     material |-> PyS("Stainless steel"),
     finish |-> PyS("Passivated"),
     mass |-> PyF(3, 3),
     cost |-> PyF(8, 2),
     tags |-> PyS("fastener,assembly")],
    [part_number |-> PyS("LA-FST-002"),
     title |-> PyS("Motor Mount Screws"),
     make_buy |-> PyS("buy"),
     category |-> PyS("fastener"),
     description |-> PyS("M3x8 socket head cap screw A2-70"),
     material |-> PyS("Stainless steel"),
     finish |-> PyS("Passivated"),
     mass |-> PyF(2, 3),
     cost |-> PyF(6, 2),
     tags |-> PyS("fastener,assembly")],
    [part_number |-> PyS("LA-CON-003"),
     title |-> PyS("Thread Locker"),
     make_buy |-> PyS("buy"),
     category |-> PyS("consumable"),
     description |-> PyS("Loctite 243 medium strength"),
     material |-> PyS("Anaerobic adhesive"),
     finish |-> PyS("N/A"),
     mass |-> PyF(1, 3),
     cost |-> PyF(15, 2),
     tags |-> PyS("consumable,assembly")]
>>

SUPPLIERS == <<
    [name |-> PyS("Precision Motion Systems"),
     short_name |-> PyS("PMS"),
     category |-> PyS("drivetrain"),
     contact_name |-> PyS("Mike Chen"),
     contact_email |-> PyS("mchen@precisionmotion.example"),
     contact_phone |-> PyS("+1-555-0101"),
     website |-> PyS("https://precisionmotion.example"),
     tags |-> PyS("motors,screws,bearings")],
    [name |-> PyS("Allied Sealing Technologies"),
     short_name |-> PyS("AST"),
     category |-> PyS("sealing"),
     contact_name |-> PyS("Sarah Johnson"),
     contact_email |-> PyS("sjohnson@alliedsealing.example"),
     contact_phone |-> PyS("+1-555-0102"),
     website |-> PyS("https://alliedsealing.example"),
     tags |-> PyS("seals,orings")],
    [name |-> PyS("Global Electronics Supply"),
     short_name |-> PyS("GES"),
     category |-> PyS("electronics"),
     contact_name |-> PyS("David Park"),
     contact_email |-> PyS("dpark@globalelec.example"),
     contact_phone |-> PyS("+1-555-0103"),
     website |-> PyS("https://globalelec.example"),
     tags |-> PyS("electronics,connectors,sensors")],
    [name |-> PyS("MetalWorks CNC"),
     short_name |-> PyS("MWCNC"),
     category |-> PyS("machining"),
     contact_name |-> PyS("Tom Williams"),
     contact_email |-> PyS("twilliams@metalworkscnc.example"),
     contact_phone |-> PyS("+1-555-0104"),
     website |-> PyS("https://metalworkscnc.example"),
     tags |-> PyS("machining,make")],
    [name |-> PyS("FastenerWorld"),
     short_name |-> PyS("FW"),
     category |-> PyS("fasteners"),
     contact_name |-> PyS("Lisa Brown"),
     contact_email |-> PyS("lbrown@fastenerworld.example"),
     contact_phone |-> PyS("+1-555-0105"),
     website |-> PyS("https://fastenerworld.example"),
     tags |-> PyS("fasteners,hardware")]
>>

RISKS == <<
    [title |-> PyS("Motor Overheating"),
     type |-> PyS("design"),
     category |-> PyS("thermal"),
     description |-> PyS("Motor may overheat under continuous high-load operation"),
     failure_mode |-> PyS("Thermal shutdown or winding damage during extended operation"),
     cause |-> PyS("Insufficient heat dissipation path from motor to housing"),
     effect |-> PyS("System shutdown, potential motor damage, warranty returns"),
     severity |-> PyI(7),
     occurrence |-> PyI(4),
     detection |-> PyI(5),
     tags |-> PyS("thermal,motor")],
    [title |-> PyS("Lead Screw Wear"),
     type |-> PyS("design"),
     category |-> PyS("wear"),
     description |-> PyS("Accelerated wear on lead screw nut interface"),
     failure_mode |-> PyS("Excessive backlash and positioning error over time"),
     cause |-> PyS("Inadequate lubrication or contamination ingress"),
     effect |-> PyS("Degraded positioning accuracy, shortened service life"),
     severity |-> PyI(6),
     occurrence |-> PyI(5),
     detection |-> PyI(6),
     tags |-> PyS("wear,drivetrain")],
    [title |-> PyS("Seal Failure"),
     type |-> PyS("design"),
     category |-> PyS("sealing"),
     description |-> PyS("Rod seal may fail under extreme temperature cycling"),
     failure_mode |-> PyS("Seal extrusion or hardening leading to leakage"),
     cause |-> PyS("Temperature cycling beyond seal material limits"),
     effect |-> PyS("Loss of IP65 rating, contamination ingress"),
     severity |-> PyI(8),
     occurrence |-> PyI(3),
     detection |-> PyI(4),
     tags |-> PyS("sealing,environmental")],
    [title |-> PyS("Encoder Miscounting"),
     type |-> PyS("design"),
     category |-> PyS("electrical"),
     description |-> PyS("Encoder may miscount under EMI conditions"),
     failure_mode |-> PyS("Position feedback errors and drift"),
     cause |-> PyS("Insufficient EMI shielding on encoder signals"),
     effect |-> PyS("Positioning errors, potential safety issue"),
     severity |-> PyI(7),
     occurrence |-> PyI(3),
     detection |-> PyI(5),
     tags |-> PyS("electrical,emc")],
    [title |-> PyS("Bearing Preload Loss"),
     type |-> PyS("design"),
     category |-> PyS("mechanical"),
     description |-> PyS("Angular contact bearing preload may change with temperature"),
     failure_mode |-> PyS("Increased axial play or excessive preload"),
     cause |-> PyS("Differential thermal expansion in bearing assembly"),
     effect |-> PyS("Reduced life, noise, or binding"),
     severity |-> PyI(5),
     occurrence |-> PyI(4),
     detection |-> PyI(6),
     tags |-> PyS("mechanical,bearings")],
    [title |-> PyS("Housing Bore Tolerance"),
     type |-> PyS("process"),
     category |-> PyS("machining"),
     description |-> PyS("Housing bore may go out of tolerance"),
     failure_mode |-> PyS("Bore diameter or concentricity out of specification"),
     cause |-> PyS("Tool wear, thermal growth, or setup error"),
     effect |-> PyS("Bearing fit issues, assembly problems"),
     severity |-> PyI(6),
     occurrence |-> PyI(4),
     detection |-> PyI(3),
     tags |-> PyS("machining,dimensional")],
    [title |-> PyS("Anodize Thickness Variation"),
     type |-> PyS("process"),
     category |-> PyS("finishing"),
     description |-> PyS("Anodize coating may have thickness variation"),
     failure_mode |-> PyS("Uneven or out-of-spec coating thickness"),
     cause |-> PyS("Bath chemistry variation or rack positioning"),
     effect |-> PyS("Fit issues with bearings, cosmetic defects"),
     severity |-> PyI(4),
     occurrence |-> PyI(5),
     detection |-> PyI(4),
     tags |-> PyS("finishing,surface")],
    [title |-> PyS("Wrong Fastener Torque"),
     type |-> PyS("process"),
     category |-> PyS("assembly"),
     description |-> PyS("Fasteners may be under or over-torqued"),
     failure_mode |-> PyS("Loose or stripped fasteners"),
     cause |-> PyS("Operator error or uncalibrated tools"),
     effect |-> PyS("Assembly loosening in service or stripped threads"),
     severity |-> PyI(6),
     occurrence |-> PyI(4),
     detection |-> PyI(5),
     tags |-> PyS("assembly,fastener")],
    [title |-> PyS("Seal Installation Damage"),
     type |-> PyS("process"),
     category |-> PyS("assembly"),
     description |-> PyS("Seals may be damaged during installation"),
     failure_mode |-> PyS("Cut, twisted, or improperly seated seal"),
     cause |-> PyS("Sharp edges, improper technique, or missing lubrication"),
     effect |-> PyS("Immediate or premature seal failure"),
     severity |-> PyI(7),
     occurrence |-> PyI(4),
     detection |-> PyI(5),
     tags |-> PyS("assembly,sealing")],
    [title |-> PyS("Motor-Screw Misalignment"),
     type |-> PyS("process"),
     category |-> PyS("assembly"),
     description |-> PyS("Motor shaft may be misaligned with lead screw"),
     failure_mode |-> PyS("Angular or parallel misalignment"),
     cause |-> PyS("Tolerance stackup or coupling installation error"),
     effect |-> PyS("Vibration, noise, reduced bearing life"),
     severity |-> PyI(5),
     occurrence |-> PyI(5),
     detection |-> PyI(4),
     tags |-> PyS("assembly,alignment")]
>>

TESTS == <<
    [title |-> PyS("Stroke Length Verification"),
     type |-> PyS("verification"),
     level |-> PyS("system"),
     method |-> PyS("test"),
     category |-> PyS("dimensional"),
     priority |-> PyS("critical"),
     objective |-> PyS("Verify actuator achieves specified stroke length"),
     description |-> PyS("Measure full stroke extension and retraction using calibrated linear scale"),
     estimated_duration |-> PyS("15 min"),
     tags |-> PyS("dimensional,critical")],
    [title |-> PyS("Force Output Test"),
     type |-> PyS("verification"),
     level |-> PyS("system"),
     method |-> PyS("test"),
     category |-> PyS("performance"),
     priority |-> PyS("critical"),
     objective |-> PyS("Verify actuator produces specified continuous force"),
     description |-> PyS("Apply increasing load via dynamometer until stall, measure continuous force capability"),
     estimated_duration |-> PyS("30 min"),
     tags |-> PyS("force,performance")],
    [title |-> PyS("Speed Range Verification"),
     type |-> PyS("verification"),
     level |-> PyS("system"),
     method |-> PyS("test"),
     category |-> PyS("performance"),
     priority |-> PyS("high"),
     objective |-> PyS("Verify actuator speed range meets specification"),
     description |-> PyS("Measure extension/retraction speed at min and max settings using high-speed camera or laser"),
     estimated_duration |-> PyS("20 min"),
     tags |-> PyS("speed,performance")],
    [title |-> PyS("Position Repeatability Test"),
     type |-> PyS("verification"),
     level |-> PyS("system"),
     method |-> PyS("test"),
     category |-> PyS("performance"),
     priority |-> PyS("high"),
     objective |-> PyS("Verify position repeatability specification"),
     description |-> PyS("Command 10 cycles to same position, measure variation with dial indicator"),
     estimated_duration |-> PyS("45 min"),
     tags |-> PyS("precision,performance")],
    [title |-> PyS("IP65 Ingress Test"),
     type |-> PyS("verification"),
     level |-> PyS("system"),
     method |-> PyS("test"),
     category |-> PyS("environmental"),
     priority |-> PyS("high"),
     objective |-> PyS("Verify IP65 dust and water jet protection"),
     description |-> PyS("Subject to dust chamber test and 6.3mm water jet at 12.5 l/min per IEC 60529"),
     estimated_duration |-> PyS("4 hr"),
     tags |-> PyS("environmental,sealing")],
    [title |-> PyS("Temperature Cycling Test"),
     type |-> PyS("verification"),
     level |-> PyS("system"),
     method |-> PyS("test"),
     category |-> PyS("environmental"),
     priority |-> PyS("high"),
     objective |-> PyS("Verify operation across temperature range"),
     description |-> PyS("Operate through 10 cycles of -20°C to +50°C with 30 min dwells"),
     estimated_duration |-> PyS("24 hr"),
     tags |-> PyS("environmental,thermal")],
    [title |-> PyS("EMC Emissions Test"),
     type |-> PyS("verification"),
     level |-> PyS("system"),
     method |-> PyS("test"),
     category |-> PyS("electrical"),
     priority |-> PyS("medium"),
     objective |-> PyS("Verify compliance with EN 61000-6-4 emissions limits"),
     description |-> PyS("Conducted and radiated emissions per EN 55011"),
     estimated_duration |-> PyS("8 hr"),
     tags |-> PyS("emc,regulatory")],
    [title |-> PyS("Motor Thermal Test"),
     type |-> PyS("verification"),
     level |-> PyS("unit"),
     method |-> PyS("test"),
     category |-> PyS("thermal"),
     priority |-> PyS("high"),
     objective |-> PyS("Verify motor temperature rise is acceptable"),
     description |-> PyS("Run at rated load for 2 hours, monitor winding temperature via resistance"),
     estimated_duration |-> PyS("3 hr"),
     tags |-> PyS("thermal,motor")],
    [title |-> PyS("Housing Dimensional Inspection"),
     type |-> PyS("verification"),
     level |-> PyS("unit"),
     method |-> PyS("inspection"),
     category |-> PyS("dimensional"),
     priority |-> PyS("high"),
     objective |-> PyS("Verify housing critical dimensions"),
     description |-> PyS("CMM inspection of bearing bores, seal grooves, and mounting features"),
     estimated_duration |-> PyS("45 min"),
     tags |-> PyS("dimensional,machined")],
    [title |-> PyS("First Article Inspection"),
     type |-> PyS("verification"),
     level |-> PyS("system"),
     method |-> PyS("inspection"),
     category |-> PyS("dimensional"),
     priority |-> PyS("critical"),
     objective |-> PyS("Complete dimensional inspection of first production unit"),
     description |-> PyS("Full CMM inspection per drawing requirements"),
     estimated_duration |-> PyS("4 hr"),
     tags |-> PyS("fai,dimensional")],
    [title |-> PyS("Customer Application Trial"),
     type |-> PyS("validation"),
     level |-> PyS("acceptance"),
     method |-> PyS("demonstration"),
     category |-> PyS("application"),
     priority |-> PyS("high"),
     objective |-> PyS("Validate actuator performance in customer application"),
     description |-> PyS("Install in customer machine, run typical duty cycle for 1 week"),
     estimated_duration |-> PyS("168 hr"),
     tags |-> PyS("validation,customer")],
    [title |-> PyS("Lifecycle Durability Test"),
     type |-> PyS("validation"),
     level |-> PyS("system"),
     method |-> PyS("test"),
     category |-> PyS("reliability"),
     priority |-> PyS("high"),
     objective |-> PyS("Validate actuator achieves design life cycles"),
     description |-> PyS("Continuous cycling at rated load until failure or 1M cycles"),
     estimated_duration |-> PyS("2000 hr"),
     tags |-> PyS("reliability,endurance")]
>>

(***************************************************************************)
(* write_csv                                                               *)
(***************************************************************************)
\* DictWriter._dict_to_list with extrasaction='ignore' and restval='':
\* one cell per fieldname, in fieldnames order.
DictToList(headers, row) ==
    [j \in 1..Len(headers) |->
        IF headers[j] \in DOMAIN row THEN PyStr(row[headers[j]]) ELSE ""]

\* The rows of cells of the file written: the header row, then one per record.
WriteCsv(headers, rows) ==
    <<headers>> \o [i \in 1..Len(rows) |-> DictToList(headers, rows[i])]

\* mutant: DictWriter's default extrasaction
extrasaction_raise == "raise"

\* the extrasaction argument both write_csv functions give csv.DictWriter
extrasaction == "ignore"

\* DictWriter raises ValueError on a record with a key that is no fieldname,
\* unless extrasaction is 'ignore'
DictWriterRaises(headers, rows) ==
    /\ extrasaction = "raise"
    /\ \E i \in 1..Len(rows) :
          DOMAIN rows[i] \ {headers[j] : j \in 1..Len(headers)} /= {}

(***************************************************************************)
(* benchmark.py main(): paths, fixtures and the phase lists                *)
(***************************************************************************)
\* what tempfile.mkdtemp(prefix="tdt-bench-") returns
work_dir == "/tmp/tdt-bench-x1y2z3"
csv_dir == work_dir \o "/csvs"
project_dir == work_dir \o "/project"
\* the directory the process is started in
StartDir == "<start>"

NoChild == "<none>"
NoSummary == [printed |-> FALSE]
Running == -1
\* exit statuses a child process ends with: zero, non-zero
ExitCodes == {0, 1}

bench_req_headers ==
    <<"title", "type", "priority", "status", "category", "text", "rationale", "tags">>
bench_cmp_headers ==
    <<"part_number", "title", "make_buy", "category", "description", "material",
      "finish", "mass", "cost", "tags">>
bench_risk_headers ==
    <<"title", "type", "category", "description", "failure_mode", "cause", "effect",
      "severity", "occurrence", "detection", "tags">>
bench_test_headers ==
    <<"title", "type", "level", "method", "category", "priority", "objective",
      "description", "estimated_duration", "tags">>
bench_sup_headers ==
    <<"name", "short_name", "category", "contact_name", "contact_email",
      "contact_phone", "website", "tags">>

\* generate_<kind>(n) with every iteration's draws at offset k
Generate(kind, n, k) ==
    LET ks == [j \in 1..n |-> k]
    IN  CASE kind = "req" -> generate_requirements(n, ks)
          [] kind = "cmp" -> generate_components(n, ks)
          [] kind = "risk" -> generate_risks(n, ks)
          [] kind = "test" -> generate_tests(n, ks)
          [] kind = "sup" -> generate_suppliers(n, ks)

\* the five write_csv statements of main(), in their order
BenchFixtures ==
    <<[csv_name |-> "requirements.csv", headers |-> bench_req_headers,
       kind |-> "req", n |-> NUM_REQUIREMENTS],
      [csv_name |-> "components.csv", headers |-> bench_cmp_headers,
       kind |-> "cmp", n |-> NUM_COMPONENTS],
      [csv_name |-> "risks.csv", headers |-> bench_risk_headers,
       kind |-> "risk", n |-> NUM_RISKS],
      [csv_name |-> "tests.csv", headers |-> bench_test_headers,
       kind |-> "test", n |-> NUM_TESTS],
      [csv_name |-> "suppliers.csv", headers |-> bench_sup_headers,
       kind |-> "sup", n |-> NUM_SUPPLIERS]>>

InitCmd == TDT_BIN \o " init -q"

\* mutant: the supplier and risk entries with each other's count and file
ImportListCrossed ==
    <<[etype |-> "req", count |-> NUM_REQUIREMENTS, csv_name |-> "requirements.csv"],
      [etype |-> "cmp", count |-> NUM_COMPONENTS, csv_name |-> "components.csv"],
      [etype |-> "sup", count |-> NUM_RISKS, csv_name |-> "risks.csv"],
      [etype |-> "risk", count |-> NUM_SUPPLIERS, csv_name |-> "suppliers.csv"],
      [etype |-> "test", count |-> NUM_TESTS, csv_name |-> "tests.csv"]>>

\* the list the import loop iterates over
ImportList ==
    <<[etype |-> "req", count |-> NUM_REQUIREMENTS, csv_name |-> "requirements.csv"],
      [etype |-> "cmp", count |-> NUM_COMPONENTS, csv_name |-> "components.csv"],
      [etype |-> "sup", count |-> NUM_SUPPLIERS, csv_name |-> "suppliers.csv"],
      [etype |-> "risk", count |-> NUM_RISKS, csv_name |-> "risks.csv"],
      [etype |-> "test", count |-> NUM_TESTS, csv_name |-> "tests.csv"]>>

ImportCmd(e) == TDT_BIN \o " import " \o e.etype \o " " \o csv_dir \o "/" \o e.csv_name
ImportLabel(e) == "import " \o e.etype \o " (" \o ToString(e.count) \o ")"

\* mutant: the battery without its count-only listing
ListBatteryNoCount ==
    <<[cmd |-> TDT_BIN \o " req list",
       label |-> "req list (" \o ToString(NUM_REQUIREMENTS) \o ")"],
      [cmd |-> TDT_BIN \o " cmp list",
       label |-> "cmp list (" \o ToString(NUM_COMPONENTS) \o ")"],
      [cmd |-> TDT_BIN \o " risk list",
       label |-> "risk list (" \o ToString(NUM_RISKS) \o ")"],
      [cmd |-> TDT_BIN \o " test list",
       label |-> "test list (" \o ToString(NUM_TESTS) \o ")"],
      [cmd |-> TDT_BIN \o " req list --format json", label |-> "req list --format json"],
      [cmd |-> TDT_BIN \o " req list --priority critical",
       label |-> "req list --priority critical"],
      [cmd |-> TDT_BIN \o " risk list --by-rpn", label |-> "risk list --by-rpn"]>>

ListBattery ==
    <<[cmd |-> TDT_BIN \o " req list",
       label |-> "req list (" \o ToString(NUM_REQUIREMENTS) \o ")"],
      [cmd |-> TDT_BIN \o " cmp list",
       label |-> "cmp list (" \o ToString(NUM_COMPONENTS) \o ")"],
      [cmd |-> TDT_BIN \o " risk list",
       label |-> "risk list (" \o ToString(NUM_RISKS) \o ")"],
      [cmd |-> TDT_BIN \o " test list",
       label |-> "test list (" \o ToString(NUM_TESTS) \o ")"],
      [cmd |-> TDT_BIN \o " req list --format json", label |-> "req list --format json"],
      [cmd |-> TDT_BIN \o " req list --priority critical",
       label |-> "req list --priority critical"],
      [cmd |-> TDT_BIN \o " risk list --by-rpn", label |-> "risk list --by-rpn"],
      [cmd |-> TDT_BIN \o " req list --count", label |-> "req list --count"]>>

StatusBattery ==
    <<[cmd |-> TDT_BIN \o " status", label |-> "status"],
      [cmd |-> TDT_BIN \o " status --detailed", label |-> "status --detailed"],
      [cmd |-> TDT_BIN \o " report rvm", label |-> "report rvm"],
      [cmd |-> TDT_BIN \o " report fmea", label |-> "report fmea"],
      [cmd |-> TDT_BIN \o " report test-status", label |-> "report test-status"],
      [cmd |-> TDT_BIN \o " report open-issues", label |-> "report open-issues"],
      [cmd |-> TDT_BIN \o " trace matrix", label |-> "trace matrix"]>>

\* mutant: the rebuild run once
CacheBatteryOnce ==
    <<[cmd |-> TDT_BIN \o " cache status", label |-> "cache status"],
      [cmd |-> TDT_BIN \o " cache rebuild", label |-> "cache rebuild"]>>

CacheBattery ==
    <<[cmd |-> TDT_BIN \o " cache status", label |-> "cache status"],
      [cmd |-> TDT_BIN \o " cache rebuild", label |-> "cache rebuild"],
      [cmd |-> TDT_BIN \o " cache rebuild", label |-> "cache rebuild (warm)"]>>

(***************************************************************************)
(* generate_baseline.py main(): the five write_csv statements              *)
(***************************************************************************)
base_req_headers ==
    <<"title", "type", "priority", "status", "text", "rationale", "category", "tags">>
base_cmp_headers ==
    <<"part_number", "title", "make_buy", "category", "description", "material",
      "finish", "mass", "cost", "tags">>
base_sup_headers ==
    <<"name", "short_name", "category", "contact_name", "contact_email",
      "contact_phone", "website", "tags">>
base_risk_headers ==
    <<"title", "type", "category", "description", "failure_mode", "cause", "effect",
      "severity", "occurrence", "detection", "tags">>
base_test_headers ==
    <<"title", "type", "level", "method", "category", "priority", "objective",
      "description", "estimated_duration", "tags">>

BaseFixtures ==
    <<[csv_name |-> "requirements.csv", headers |-> base_req_headers,
       kind |-> "req", rows |-> REQUIREMENTS],
      [csv_name |-> "components.csv", headers |-> base_cmp_headers,
       kind |-> "cmp", rows |-> COMPONENTS],
      [csv_name |-> "suppliers.csv", headers |-> base_sup_headers,
       kind |-> "sup", rows |-> SUPPLIERS],
      [csv_name |-> "risks.csv", headers |-> base_risk_headers,
       kind |-> "risk", rows |-> RISKS],
      [csv_name |-> "tests.csv", headers |-> base_test_headers,
       kind |-> "test", rows |-> TESTS]>>

(***************************************************************************)
(* Steps shared by the actions of main()                                   *)
(***************************************************************************)
\* an exception nobody catches: the traceback is printed, the process ends
Raise ==
    /\ pc' = "raised"
    /\ exitCode' = 1

\* What stays of a written file in the model: its header row and the number
\* of rows after it; for the static baseline tables also the records handed
\* to the writer and the cells written (the benchmark's generated rows are
\* followed row by row in SpecGen and SpecRows).
Written(kind, rows, content) ==
    [kind |-> kind, header |-> content[1], nrows |-> Len(content) - 1,
     rows |-> IF prog = "baseline" THEN rows ELSE <<>>,
     content |-> IF prog = "baseline" THEN content ELSE <<>>]

\* mutant: a failure to write is swallowed and the caller goes on
DoWriteCsvQuiet(dir, csv_name, kind, headers, rows, ioOk, nextPc, nextIdx) ==
    /\ IF dir \in dirs /\ ioOk /\ ~DictWriterRaises(headers, rows)
       THEN files' = ((dir \o "/" \o csv_name)
                         :> Written(kind, rows, WriteCsv(headers, rows))) @@ files
       ELSE UNCHANGED files
    /\ pc' = nextPc
    /\ idx' = nextIdx
    /\ UNCHANGED exitCode

\* write_csv(filepath, headers, rows) with filepath = dir/csv_name:
\* open(filepath, 'w') needs the parent directory and may fail (ioOk);
\* then the header and the rows are written, unless DictWriter raises.
DoWriteCsv(dir, csv_name, kind, headers, rows, ioOk, nextPc, nextIdx) ==
    IF dir \in dirs /\ ioOk /\ ~DictWriterRaises(headers, rows)
    THEN /\ files' = ((dir \o "/" \o csv_name)
                        :> Written(kind, rows, WriteCsv(headers, rows))) @@ files
         /\ pc' = nextPc
         /\ idx' = nextIdx
         /\ UNCHANGED exitCode
    ELSE /\ Raise
         /\ UNCHANGED <<files, idx>>

\* mutant: subprocess.run(..., check=True), raising CalledProcessError
RunCheckTrue == TRUE

\* subprocess.run's check argument, which run_timed leaves at its default
RunCheck == FALSE

\* mutant: the flag taken from the truth value of returncode
SuccessTruthy(rc) == rc /= 0

\* result.returncode == 0
Success(rc) == rc = 0

\* invocations so far whose exit status is not the tool's usual one
Deviants(es) == Cardinality({i \in 1..Len(es) : es[i] /= toolBase})

\* mutant: the child started without waiting for the one before it
RunTimedCallNoWait(cmd) ==
    /\ Len(invoked) - Len(exits) <= 1
    /\ start' = now
    /\ child' = cmd
    /\ invoked' = Append(invoked, [cmd |-> cmd, cwd |-> cwd])
    /\ UNCHANGED <<prog, pc, idx, dirs, files, cwd, now, exits, results, summary,
                   exitCode, toolBase>>

\* run_timed up to the start of the child process
RunTimedCall(cmd) ==
    /\ child = NoChild
    /\ start' = now
    /\ child' = cmd
    /\ invoked' = Append(invoked, [cmd |-> cmd, cwd |-> cwd])
    /\ UNCHANGED <<prog, pc, idx, dirs, files, cwd, now, exits, results, summary,
                   exitCode, toolBase>>

\* mutant: a phase that fails is recorded and attempted once more
RunTimedReturnRetry(label, nextPc, nextIdx) ==
    /\ child /= NoChild
    /\ \E rc \in ExitCodes, d \in 0..MaxPerturb :
          /\ Deviants(Append(exits, rc)) + now + d <= MaxPerturb
          /\ now' = now + d
          /\ exits' = Append(exits, rc)
          /\ child' = NoChild
          /\ results' = Append(results,
                [label |-> label, elapsed |-> now' - start, ok |-> Success(rc)])
          /\ IF rc /= 0 /\ (results = <<>> \/ results[Len(results)].label /= label)
             THEN UNCHANGED <<pc, idx>>
             ELSE pc' = nextPc /\ idx' = nextIdx
          /\ UNCHANGED exitCode
    /\ UNCHANGED <<prog, dirs, files, cwd, start, invoked, summary, toolBase>>

\* run_timed from the child's exit on, and the caller's results.append:
\* the child exits with status rc after d ticks.
RunTimedReturn(label, nextPc, nextIdx) ==
    /\ child /= NoChild
    /\ \E rc \in ExitCodes, d \in 0..MaxPerturb :
          /\ Deviants(Append(exits, rc)) + now + d <= MaxPerturb
          /\ now' = now + d
          /\ exits' = Append(exits, rc)
          /\ child' = NoChild
          /\ IF RunCheck /\ rc /= 0
             THEN /\ Raise
                  /\ UNCHANGED <<results, idx>>
             ELSE /\ results' = Append(results,
                        [label |-> label, elapsed |-> now' - start, ok |-> Success(rc)])
                  /\ pc' = nextPc
                  /\ idx' = nextIdx
                  /\ UNCHANGED exitCode
    /\ UNCHANGED <<prog, dirs, files, cwd, start, invoked, summary, toolBase>>

\* one timed phase: the call, then the return
RunTimed(cmd, label, nextPc, nextIdx) ==
    \/ RunTimedCall(cmd)
    \/ RunTimedReturn(label, nextPc, nextIdx)

\* the loops over a list: the next position after element idx
NextIn(list, thisPc, thenPc) == IF idx < Len(list) THEN thisPc ELSE thenPc
NextIdx(list) == IF idx < Len(list) THEN idx + 1 ELSE 1

(***************************************************************************)
(* benchmark.py main(), statement by statement                             *)
(***************************************************************************)
idleRest == <<genVars, csvVars, roundVars, rateVars>>

\* work_dir = tempfile.mkdtemp(prefix="tdt-bench-")
Mkdtemp ==
    /\ prog = "benchmark" /\ pc = "mkdtemp"
    /\ \E ioOk \in BOOLEAN :
          IF ioOk
          THEN /\ dirs' = dirs \cup {work_dir}
               /\ pc' = "makedirs_csv"
               /\ UNCHANGED exitCode
          ELSE /\ Raise
               /\ UNCHANGED dirs
    /\ UNCHANGED <<prog, idx, files, cwd, child, start, now, invoked, exits, results,
                   summary, toolBase, idleRest>>

\* mutant: the data directory is not created
MakedirsCsvLeftOut ==
    /\ prog = "benchmark" /\ pc = "makedirs_csv"
    /\ pc' = "makedirs_project"
    /\ UNCHANGED <<prog, idx, dirs, files, cwd, child, start, now, invoked, exits,
                   results, summary, exitCode, toolBase, idleRest>>

\* os.makedirs(csv_dir)
MakedirsCsv ==
    /\ prog = "benchmark" /\ pc = "makedirs_csv"
    /\ \E ioOk \in BOOLEAN :
          IF ioOk /\ csv_dir \notin dirs
          THEN /\ dirs' = dirs \cup {csv_dir}
               /\ pc' = "makedirs_project"
               /\ UNCHANGED exitCode
          ELSE /\ Raise
               /\ UNCHANGED dirs
    /\ UNCHANGED <<prog, idx, files, cwd, child, start, now, invoked, exits, results,
                   summary, toolBase, idleRest>>

\* os.makedirs(project_dir); results = []
MakedirsProject ==
    /\ prog = "benchmark" /\ pc = "makedirs_project"
    /\ \E ioOk \in BOOLEAN :
          IF ioOk /\ project_dir \notin dirs
          THEN /\ dirs' = dirs \cup {project_dir}
               /\ pc' = "generate"
               /\ results' = <<>>
               /\ UNCHANGED exitCode
          ELSE /\ Raise
               /\ UNCHANGED <<dirs, results>>
    /\ UNCHANGED <<prog, idx, files, cwd, child, start, now, invoked, exits,
                   summary, toolBase, idleRest>>

\* write_csv(f"{csv_dir}/<name>", <kind>_headers, generate_<kind>(NUM_<KIND>))
GenerateCsv ==
    /\ prog = "benchmark" /\ pc = "generate"
    /\ \E ioOk \in BOOLEAN, k \in 0..MaxDraw :
          LET f == BenchFixtures[idx]
          IN  DoWriteCsv(csv_dir, f.csv_name, f.kind, f.headers, Generate(f.kind, f.n, k),
                         ioOk, NextIn(BenchFixtures, "generate", "chdir"),
                         NextIdx(BenchFixtures))
    /\ UNCHANGED <<prog, dirs, cwd, child, start, now, invoked, exits, results,
                   summary, toolBase, idleRest>>

\* mutant: the change of directory left out
ChdirLeftOut ==
    /\ prog = "benchmark" /\ pc = "chdir"
    /\ pc' = "init"
    /\ UNCHANGED <<prog, idx, dirs, files, cwd, child, start, now, invoked, exits,
                   results, summary, exitCode, toolBase, idleRest>>

\* os.chdir(project_dir)
Chdir ==
    /\ prog = "benchmark" /\ pc = "chdir"
    /\ \E ioOk \in BOOLEAN :
          IF ioOk /\ project_dir \in dirs
          THEN /\ cwd' = project_dir
               /\ pc' = "init"
               /\ UNCHANGED exitCode
          ELSE /\ Raise
               /\ UNCHANGED cwd
    /\ UNCHANGED <<prog, idx, dirs, files, child, start, now, invoked, exits, results,
                   summary, toolBase, idleRest>>

\* run_timed(f"{TDT_BIN} init -q", "init"); results.append(("tdt init", ...))
InitProject ==
    /\ prog = "benchmark" /\ pc = "init"
    /\ RunTimed(InitCmd, "tdt init", "import", 1)
    /\ UNCHANGED idleRest

\* one iteration of the import loop
ImportEntity ==
    /\ prog = "benchmark" /\ pc = "import"
    /\ RunTimed(ImportCmd(ImportList[idx]), ImportLabel(ImportList[idx]),
                NextIn(ImportList, "import", "validate"), NextIdx(ImportList))
    /\ UNCHANGED idleRest

\* run_timed(f"{TDT_BIN} validate", "validate")
Validate ==
    /\ prog = "benchmark" /\ pc = "validate"
    /\ RunTimed(TDT_BIN \o " validate", "validate", "validate_fix", 1)
    /\ UNCHANGED idleRest

\* run_timed(f"{TDT_BIN} validate --fix", "validate --fix")
ValidateFix ==
    /\ prog = "benchmark" /\ pc = "validate_fix"
    /\ RunTimed(TDT_BIN \o " validate --fix", "validate --fix", "list", 1)
    /\ UNCHANGED idleRest

\* one iteration of the list loop
ListOperation ==
    /\ prog = "benchmark" /\ pc = "list"
    /\ RunTimed(ListBattery[idx].cmd, ListBattery[idx].label,
                NextIn(ListBattery, "list", "status"), NextIdx(ListBattery))
    /\ UNCHANGED idleRest

\* one iteration of the status and report loop
StatusOperation ==
    /\ prog = "benchmark" /\ pc = "status"
    /\ RunTimed(StatusBattery[idx].cmd, StatusBattery[idx].label,
                NextIn(StatusBattery, "status", "cache"), NextIdx(StatusBattery))
    /\ UNCHANGED idleRest

\* one iteration of the cache loop
CacheOperation ==
    /\ prog = "benchmark" /\ pc = "cache"
    /\ RunTimed(CacheBattery[idx].cmd, CacheBattery[idx].label,
                NextIn(CacheBattery, "cache", "summary"), NextIdx(CacheBattery))
    /\ UNCHANGED idleRest

RECURSIVE SumElapsed(_)
\* mutant: the elapsed time of the last result alone
SumElapsedLast(rs) == IF rs = <<>> THEN 0 ELSE rs[Len(rs)].elapsed

\* sum(r[1] for r in results)
SumElapsed(rs) == IF rs = <<>> THEN 0 ELSE rs[1].elapsed + SumElapsed(Tail(rs))

\* sum(1 for r in results if not r[2])
CountFailed(rs) == Cardinality({i \in 1..Len(rs) : ~rs[i].ok})

\* mutant: a strict mode, the process exiting non-zero when a phase failed
SummaryStrict ==
    /\ prog = "benchmark" /\ pc = "summary"
    /\ summary' = [printed |-> TRUE,
                   total_entities |-> NUM_REQUIREMENTS + NUM_COMPONENTS + NUM_RISKS
                                      + NUM_TESTS + NUM_SUPPLIERS,
                   total_time |-> SumElapsed(results),
                   operations |-> Len(results),
                   failed |-> CountFailed(results),
                   work_dir |-> work_dir]
    /\ pc' = "done"
    /\ exitCode' = IF CountFailed(results) > 0 THEN 1 ELSE 0
    /\ UNCHANGED <<prog, idx, dirs, files, cwd, child, start, now, invoked, exits,
                   results, toolBase, idleRest>>

\* the summary block, after which main() returns and the process ends
Summary ==
    /\ prog = "benchmark" /\ pc = "summary"
    /\ summary' = [printed |-> TRUE,
                   total_entities |-> NUM_REQUIREMENTS + NUM_COMPONENTS + NUM_RISKS
                                      + NUM_TESTS + NUM_SUPPLIERS,
                   total_time |-> SumElapsed(results),
                   operations |-> Len(results),
                   failed |-> CountFailed(results),
                   work_dir |-> work_dir]
    /\ pc' = "done"
    /\ exitCode' = 0
    /\ UNCHANGED <<prog, idx, dirs, files, cwd, child, start, now, invoked, exits,
                   results, toolBase, idleRest>>

(***************************************************************************)
(* generate_baseline.py main()                                             *)
(***************************************************************************)
\* Path(OUTPUT_DIR).mkdir(parents=True, exist_ok=True)
BaseMkdir ==
    /\ prog = "baseline" /\ pc = "mkdir"
    /\ \E ioOk \in BOOLEAN :
          IF ioOk
          THEN /\ dirs' = dirs \cup {OUTPUT_DIR}
               /\ pc' = "write"
               /\ UNCHANGED exitCode
          ELSE /\ Raise
               /\ UNCHANGED dirs
    /\ UNCHANGED <<prog, idx, files, cwd, child, start, now, invoked, exits, results,
                   summary, toolBase, idleRest>>

\* mutant: the rows are sampled from the table with the random module
BaseWriteCsvSampled ==
    /\ prog = "baseline" /\ pc = "write"
    /\ \E ioOk \in BOOLEAN, k \in 0..MaxDraw :
          LET f == BaseFixtures[idx]
              sample == [j \in 1..Len(f.rows) |-> Choice(f.rows, Draw(k, j))]
          IN  DoWriteCsv(OUTPUT_DIR, f.csv_name, f.kind, f.headers, sample, ioOk,
                         NextIn(BaseFixtures, "write", "print"), NextIdx(BaseFixtures))
    /\ UNCHANGED <<prog, dirs, cwd, child, start, now, invoked, exits, results,
                   summary, toolBase, idleRest>>

\* write_csv("<name>", <kind>_headers, <TABLE>), filepath = Path(OUTPUT_DIR) / filename
BaseWriteCsv ==
    /\ prog = "baseline" /\ pc = "write"
    /\ \E ioOk \in BOOLEAN :
          LET f == BaseFixtures[idx]
          IN  DoWriteCsv(OUTPUT_DIR, f.csv_name, f.kind, f.headers, f.rows, ioOk,
                         NextIn(BaseFixtures, "write", "print"), NextIdx(BaseFixtures))
    /\ UNCHANGED <<prog, dirs, cwd, child, start, now, invoked, exits, results,
                   summary, toolBase, idleRest>>

\* the closing print of the import commands; main() returns
BasePrint ==
    /\ prog = "baseline" /\ pc = "print"
    /\ pc' = "done"
    /\ exitCode' = 0
    /\ UNCHANGED <<prog, idx, dirs, files, cwd, child, start, now, invoked, exits,
                   results, summary, toolBase, idleRest>>

(***************************************************************************)
(* Spec: one run of either program                                         *)
(***************************************************************************)
GenIdle == gKind = "none" /\ gN = 0 /\ gRows = <<>> /\ gPc = "idle"
NotWritten == [state |-> "unwritten", content |-> <<>>]
CsvIdle == wHeaders = <<>> /\ wRows = <<>> /\ wOut = NotWritten
NotRounded == -1
RoundIdle == uKind = "none" /\ uDraw = 0 /\ uOut = NotRounded
NoRate == [computed |-> FALSE]
RateIdle == tCount = 0 /\ tElapsed = 0 /\ tRate = NoRate

MainIdle ==
    /\ prog = "none" /\ pc = "idle" /\ idx = 1
    /\ dirs = {} /\ files = <<>> /\ cwd = StartDir
    /\ child = NoChild /\ start = 0 /\ now = 0
    /\ invoked = <<>> /\ exits = <<>> /\ results = <<>>
    /\ summary = NoSummary /\ exitCode = Running /\ toolBase = 0

Init ==
    /\ prog \in {"benchmark", "baseline"}
    /\ pc = IF prog = "benchmark" THEN "mkdtemp" ELSE "mkdir"
    /\ idx = 1
    /\ dirs = {"/tmp"}
    /\ files = <<>>
    /\ cwd = StartDir
    /\ child = NoChild /\ start = 0 /\ now = 0
    /\ invoked = <<>> /\ exits = <<>> /\ results = <<>>
    /\ summary = NoSummary
    /\ exitCode = Running
    /\ toolBase \in IF prog = "benchmark" THEN ExitCodes ELSE {0}
    /\ GenIdle /\ CsvIdle /\ RoundIdle /\ RateIdle

Next ==
    \/ Mkdtemp
    \/ MakedirsCsv
    \/ MakedirsProject
    \/ GenerateCsv
    \/ Chdir
    \/ InitProject
    \/ ImportEntity
    \/ Validate
    \/ ValidateFix
    \/ ListOperation
    \/ StatusOperation
    \/ CacheOperation
    \/ Summary
    \/ BaseMkdir
    \/ BaseWriteCsv
    \/ BasePrint

Spec == Init /\ [][Next]_vars

\* main() runs on once started: every statement that can execute does, and
\* subprocess.run returns when the child exits.
FairSpec == Spec /\ WF_vars(Next)

(***************************************************************************)
(* SpecGen: one call of one generator, one loop iteration per step         *)
(***************************************************************************)
Kinds == {"req", "cmp", "sup", "risk", "test"}

GenInit ==
    /\ gKind \in Kinds
    /\ gN \in 0..MaxCount
    /\ gRows = <<>>
    /\ gPc = "loop"
    /\ MainIdle /\ CsvIdle /\ RoundIdle /\ RateIdle

\* one iteration of "for i in range(n)" in the generator of kind: i is the
\* number of rows appended so far
GenIteration(kind) ==
    /\ gKind = kind /\ gPc = "loop"
    /\ Len(gRows) < gN
    /\ \E k \in 0..MaxDraw :
          gRows' = Append(gRows,
                     CASE kind = "req" -> RequirementRow(Len(gRows), k)
                       [] kind = "cmp" -> ComponentRow(Len(gRows), k)
                       [] kind = "risk" -> RiskRow(Len(gRows), k)
                       [] kind = "test" -> TestRow(Len(gRows), k)
                       [] kind = "sup" -> SupplierRow(Len(gRows), k))
    /\ UNCHANGED <<gKind, gN, gPc, mainVars, csvVars, roundVars, rateVars>>

GenerateRequirements == GenIteration("req")
GenerateComponents == GenIteration("cmp")
GenerateRisks == GenIteration("risk")
GenerateTests == GenIteration("test")
GenerateSuppliers == GenIteration("sup")

\* range(n) is exhausted: return rows
GenReturn ==
    /\ gPc = "loop"
    /\ ~(Len(gRows) < gN)
    /\ gPc' = "returned"
    /\ UNCHANGED <<gKind, gN, gRows, mainVars, csvVars, roundVars, rateVars>>

GenNext ==
    \/ GenerateRequirements
    \/ GenerateComponents
    \/ GenerateRisks
    \/ GenerateTests
    \/ GenerateSuppliers
    \/ GenReturn

SpecGen == GenInit /\ [][GenNext]_vars

(***************************************************************************)
(* SpecCsv: one call of write_csv on small inputs                          *)
(***************************************************************************)
CsvFields == {"a", "b", "c"}

\* field orders: the sequences without repetition over CsvFields
CsvHeaders ==
    {h \in UNION {[1..n -> CsvFields] : n \in 0..Cardinality(CsvFields)} :
        \A i, j \in 1..Len(h) : i /= j => h[i] /= h[j]}

\* the values a record may give its fields: integers, or one of each type
CsvValueMaps ==
    {[a |-> PyI(1), b |-> PyI(2), c |-> PyI(3)],
     [a |-> PyS("x"), b |-> PyF(850, 3), c |-> PyI(0)]}

\* records: any subset of the fields, valued by one of the maps
CsvRecords ==
    {[f \in s |-> vm[f]] : s \in SUBSET CsvFields, vm \in CsvValueMaps}

CsvInit ==
    /\ wHeaders \in CsvHeaders
    /\ wRows \in UNION {[1..n -> CsvRecords] : n \in 0..MaxRows}
    /\ wOut = NotWritten
    /\ MainIdle /\ GenIdle /\ RoundIdle /\ RateIdle

\* write_csv(filepath, headers, rows), the file opened
WriteCsvCall ==
    /\ wOut = NotWritten
    /\ wOut' = IF DictWriterRaises(wHeaders, wRows)
               THEN [state |-> "raised", content |-> <<>>]
               ELSE [state |-> "written", content |-> WriteCsv(wHeaders, wRows)]
    /\ UNCHANGED <<wHeaders, wRows, mainVars, genVars, roundVars, rateVars>>

CsvNext == WriteCsvCall

SpecCsv == CsvInit /\ [][CsvNext]_vars

(***************************************************************************)
(* SpecRound: the mass and cost of one component row                       *)
(***************************************************************************)
\* the values random.uniform(lo, hi) can return, in sub-steps
UniformRange(lo, hi) == (lo * SubSteps)..(hi * SubSteps)

RoundInit ==
    /\ uKind \in {"mass", "cost"}
    /\ uDraw \in IF uKind = "mass" THEN UniformRange(MassLo, MassHi)
                 ELSE UniformRange(CostLo, CostHi)
    /\ uOut = NotRounded
    /\ MainIdle /\ GenIdle /\ CsvIdle /\ RateIdle

\* "mass": round(random.uniform(0.01, 2.0), 3),
\* "cost": round(random.uniform(0.50, 150.0), 2)
RoundDraw ==
    /\ uOut = NotRounded
    /\ uOut' = IF uKind = "mass" THEN RoundMass(uDraw) ELSE RoundCost(uDraw)
    /\ UNCHANGED <<uKind, uDraw, mainVars, genVars, csvVars, rateVars>>

RoundNext == RoundDraw

SpecRound == RoundInit /\ [][RoundNext]_vars

(***************************************************************************)
(* SpecRows: the rows either program produces.  The generators run row by  *)
(* row as in SpecGen; of one large batch of components two rows are        *)
(* followed; the baseline generator writes its tables as in Spec.          *)
(***************************************************************************)
\* generate_components(n) for an n whose suffixes pass four digits
LargeBatch == 10001 + PnWindow

\* the iterations followed: the first ones and those around i + 1 = 10000
PairIndexes ==
    {i \in 0..(LargeBatch - 1) : i <= PnWindow \/ i >= 9998 - PnWindow}

PairInit ==
    /\ gKind = "cmp"
    /\ gN = LargeBatch
    /\ gRows = <<>>
    /\ gPc = "pick"
    /\ MainIdle /\ CsvIdle /\ RoundIdle /\ RateIdle

\* iterations i < j of "for i in range(n)" in generate_components: the two
\* rows they append
PickPair ==
    /\ gKind = "cmp" /\ gPc = "pick"
    /\ \E i \in PairIndexes, j \in PairIndexes, ki \in 0..MaxDraw, kj \in 0..MaxDraw :
          /\ i < j
          /\ gRows' = <<ComponentRow(i, ki), ComponentRow(j, kj)>>
    /\ gPc' = "picked"
    /\ UNCHANGED <<gKind, gN, mainVars, csvVars, roundVars, rateVars>>

BaseInit == Init /\ prog = "baseline"

RowsInit == GenInit \/ PairInit \/ BaseInit

RowsNext ==
    \/ GenerateRequirements
    \/ GenerateComponents
    \/ GenerateRisks
    \/ GenerateTests
    \/ GenerateSuppliers
    \/ GenReturn
    \/ PickPair
    \/ BaseMkdir
    \/ BaseWriteCsv
    \/ BasePrint

SpecRows == RowsInit /\ [][RowsNext]_vars

(***************************************************************************)
(* SpecRate: the implied throughput of a phase,                            *)
(*     rate = count / elapsed if elapsed > 0 else 0                        *)
(* for the counts of the import loop and of validate, and for small ones.  *)
(***************************************************************************)
RECURSIVE Gcd(_, _)
Gcd(a, b) == IF b = 0 THEN a ELSE Gcd(b, a % b)

Abs(x) == IF x < 0 THEN -x ELSE x

\* a / b of an int by a float: ZeroDivisionError when b is zero, else the
\* quotient, kept as a fraction in lowest terms with a positive denominator
PyTrueDiv(a, b) ==
    IF b = 0
    THEN [t |-> "ZeroDivisionError", num |-> 0, den |-> 0]
    ELSE LET g == Gcd(Abs(a), Abs(b))
             s == IF b < 0 THEN -1 ELSE 1
         IN  [t |-> "float", num |-> (s * a) \div g, den |-> (s * b) \div g]

\* the literal 0 of the else branch
IntZero == [t |-> "int", num |-> 0, den |-> 1]

\* mutant: the division without its guard
RateUnguarded(count, elapsed) == PyTrueDiv(count, elapsed)

\* count / elapsed if elapsed > 0 else 0
Rate(count, elapsed) == IF elapsed > 0 THEN PyTrueDiv(count, elapsed) ELSE IntZero

total_entities ==
    NUM_REQUIREMENTS + NUM_COMPONENTS + NUM_RISKS + NUM_TESTS + NUM_SUPPLIERS

\* the counts a rate is computed from, and small counts from 0 on
RateCounts ==
    {NUM_REQUIREMENTS, NUM_COMPONENTS, NUM_SUPPLIERS, NUM_RISKS, NUM_TESTS,
     total_entities} \cup 0..MaxCount

RateInit ==
    /\ tCount \in RateCounts
    /\ tElapsed \in (-MaxElapsed)..MaxElapsed
    /\ tRate = NoRate
    /\ MainIdle /\ GenIdle /\ CsvIdle /\ RoundIdle

\* rate = count / elapsed if elapsed > 0 else 0
ComputeRate ==
    /\ tRate = NoRate
    /\ tRate' = [computed |-> TRUE, value |-> Rate(tCount, tElapsed)]
    /\ UNCHANGED <<tCount, tElapsed, mainVars, genVars, csvVars, roundVars>>

RateNext == ComputeRate

SpecRate == RateInit /\ [][RateNext]_vars

(***************************************************************************)
(* The claims                                                              *)
(***************************************************************************)
\* the command lines of one benchmark run as the claims list them: init, the
\* imports, the validations, the list battery, status and reports, the cache
PhaseCommands ==
    <<"tdt init -q",
      "tdt import req " \o csv_dir \o "/requirements.csv",
      "tdt import cmp " \o csv_dir \o "/components.csv",
      "tdt import sup " \o csv_dir \o "/suppliers.csv",
      "tdt import risk " \o csv_dir \o "/risks.csv",
      "tdt import test " \o csv_dir \o "/tests.csv",
      "tdt validate",
      "tdt validate --fix",
      "tdt req list", "tdt cmp list", "tdt risk list", "tdt test list",
      "tdt req list --format json", "tdt req list --priority critical",
      "tdt risk list --by-rpn", "tdt req list --count",
      "tdt status", "tdt status --detailed", "tdt report rvm", "tdt report fmea",
      "tdt report test-status", "tdt report open-issues", "tdt trace matrix",
      "tdt cache status", "tdt cache rebuild", "tdt cache rebuild">>

\* the labels under which those invocations are recorded
PhaseLabels ==
    <<"tdt init",
      "import req (500)", "import cmp (200)", "import sup (20)",
      "import risk (100)", "import test (150)",
      "validate", "validate --fix",
      "req list (500)", "cmp list (200)", "risk list (100)", "test list (150)",
      "req list --format json", "req list --priority critical",
      "risk list --by-rpn", "req list --count",
      "status", "status --detailed", "report rvm", "report fmea",
      "report test-status", "report open-issues", "trace matrix",
      "cache status", "cache rebuild", "cache rebuild (warm)">>

BenchDone == prog = "benchmark" /\ pc = "done"
AllExitsNonZero == \A i \in 1..Len(exits) : exits[i] /= 0
AllExitsZero == \A i \in 1..Len(exits) : exits[i] = 0

\* C1: in a benchmark run the command lines invoked are, whatever the exit
\* statuses so far, the fixed sequence init, imports, validate, validate
\* --fix, list battery, status/reports/trace matrix, cache commands, in that
\* order; results holds one entry per returned invocation, in invocation
\* order; the run never stops after an invocation, and a finished run has
\* invoked every one of them.
C1_AllPhasesAttempted ==
    prog = "benchmark" =>
        /\ Len(invoked) <= Len(PhaseCommands)
        /\ \A i \in 1..Len(invoked) : invoked[i].cmd = PhaseCommands[i]
        /\ Len(results) = Len(exits)
        /\ Len(invoked) = Len(results) + (IF child = NoChild THEN 0 ELSE 1)
        /\ \A i \in 1..Len(results) : results[i].label = PhaseLabels[i]
        /\ (invoked /= <<>> => pc /= "raised")
        /\ (pc = "done" => Len(invoked) = Len(PhaseCommands))

\* a finished run whose first invocation and some later one exited non-zero
C1_Witness ==
    /\ BenchDone
    /\ Len(invoked) = Len(PhaseCommands)
    /\ exits[1] /= 0
    /\ toolBase = 0
    /\ \E i \in 2..Len(exits) : exits[i] /= 0

\* the entity kinds in import order, and the fixture file of each
ImportOrder == <<"req", "cmp", "sup", "risk", "test">>
FixtureOf ==
    [req |-> "requirements.csv", cmp |-> "components.csv", sup |-> "suppliers.csv",
     risk |-> "risks.csv", test |-> "tests.csv"]

\* every command line that imports some kind from some kind's fixture file
ImportCommands ==
    {"tdt import " \o k \o " " \o csv_dir \o "/" \o FixtureOf[f] : k \in Kinds, f \in Kinds}

\* C2: the import commands invoked are, in order, those of req, cmp, sup,
\* risk, test; the j-th names the fixture file of its kind, which holds the
\* rows generated for that kind, and its label carries that file's row
\* count; a finished run has invoked exactly these five imports, so each of
\* the five fixture files is named by exactly one.
C2_FiveImportsInOrder ==
    prog = "benchmark" =>
        LET imports == {i \in 1..Len(invoked) : invoked[i].cmd \in ImportCommands}
        IN  /\ \A i \in imports : 2 <= i /\ i <= 6
            /\ \A j \in 1..Len(ImportOrder) :
                  LET k == ImportOrder[j]
                      path == csv_dir \o "/" \o FixtureOf[k]
                  IN  /\ j + 1 <= Len(invoked) =>
                            /\ j + 1 \in imports
                            /\ invoked[j + 1].cmd = "tdt import " \o k \o " " \o path
                            /\ path \in DOMAIN files
                            /\ files[path].kind = k
                      /\ j + 1 <= Len(results) =>
                            results[j + 1].label =
                                "import " \o k \o " (" \o ToString(files[path].nrows) \o ")"
            /\ (pc = "done" =>
                  /\ Cardinality(imports) = 5
                  /\ Cardinality(DOMAIN files) = 5)

\* a finished run: five imports made, the supplier one third
C2_Witness ==
    /\ BenchDone
    /\ Cardinality({i \in 1..Len(invoked) : invoked[i].cmd \in ImportCommands}) = 5
    /\ results[4].label = "import sup (20)"

\* C3: each recorded result's success flag is true iff the exit status of
\* its invocation is zero; in a finished run against a tool that always
\* exits non-zero every flag is false and the failure count is the number
\* of recorded phases, and against one that always exits zero every flag is
\* true, the failure count 0 and the total elapsed time not negative.
C3_SuccessIffExitZero ==
    prog = "benchmark" =>
        /\ Len(results) <= Len(exits)
        /\ \A i \in 1..Len(results) : results[i].ok <=> (exits[i] = 0)
        /\ (pc = "done" /\ AllExitsNonZero =>
              /\ \A i \in 1..Len(results) : ~results[i].ok
              /\ summary.failed = Len(results)
              /\ summary.failed = Len(PhaseCommands))
        /\ (pc = "done" /\ AllExitsZero =>
              /\ \A i \in 1..Len(results) : results[i].ok
              /\ summary.failed = 0
              /\ summary.total_time >= 0)

\* a finished run against an always-failing tool that took some time
C3_Witness ==
    /\ BenchDone
    /\ AllExitsNonZero
    /\ Len(exits) = Len(PhaseCommands)
    /\ summary.failed = Len(PhaseCommands)
    /\ summary.total_time > 0

\* C4: once setup has succeeded (main() is at the init phase), and given
\* that every child process returns, the benchmark run reaches its summary
\* and ends normally with exit status 0, whatever the phases' exit statuses.
C4_ReachesSummary ==
    (prog = "benchmark" /\ pc = "init") ~>
        (pc = "done" /\ summary.printed /\ exitCode = 0)

\* a run ended normally although every phase failed
C4_Witness ==
    /\ BenchDone
    /\ exitCode = 0
    /\ summary.printed
    /\ summary.failed = summary.operations
    /\ summary.operations = Len(PhaseCommands)

\* C5: the cache phase invokes cache status and then cache rebuild twice,
\* the two rebuilds next to each other in the invocation sequence; each
\* rebuild has its own entry in results, "cache rebuild" then "cache rebuild
\* (warm)", right after the cache status entry, and the first one's entry is
\* there before the second rebuild starts.
C5_RebuildTwice ==
    prog = "benchmark" =>
        LET rebuilds == {i \in 1..Len(invoked) : invoked[i].cmd = "tdt cache rebuild"}
        IN  /\ \A i \in rebuilds :
                  /\ i > 1
                  /\ \/ invoked[i - 1].cmd = "tdt cache status"
                        /\ (i <= Len(results) =>
                              /\ results[i - 1].label = "cache status"
                              /\ results[i].label = "cache rebuild")
                     \/ i - 1 \in rebuilds
                        /\ invoked[i - 2].cmd = "tdt cache status"
                        /\ Len(results) >= i - 1
                        /\ results[i - 1].label = "cache rebuild"
                        /\ (i <= Len(results) => results[i].label = "cache rebuild (warm)")
            /\ (pc = "done" =>
                  /\ Cardinality(rebuilds) = 2
                  /\ Len(results) = Len(invoked)
                  /\ \E i \in rebuilds : i + 1 \in rebuilds /\ i + 1 = Len(invoked))

\* a finished run whose first rebuild failed and took longer than the second
C5_Witness ==
    /\ BenchDone
    /\ \E i \in 2..Len(results) - 1 :
          /\ invoked[i].cmd = "tdt cache rebuild"
          /\ invoked[i + 1].cmd = "tdt cache rebuild"
          /\ ~results[i].ok /\ results[i + 1].ok
          /\ results[i].elapsed > results[i + 1].elapsed

\* the position of a command line in the invocation sequence
Invocations(cmd) == {i \in 1..Len(invoked) : invoked[i].cmd = cmd}

\* an invocation of cmd was made exactly once and has its own result,
\* recorded under label
RecordedOnce(cmd, label) ==
    /\ Cardinality(Invocations(cmd)) = 1
    /\ \A i \in Invocations(cmd) : i <= Len(results) /\ results[i].label = label
    /\ Cardinality({i \in 1..Len(results) : results[i].label = label}) = 1

\* the listings other than the plain ones
OtherListings ==
    /\ RecordedOnce("tdt req list --format json", "req list --format json")
    /\ RecordedOnce("tdt req list --priority critical", "req list --priority critical")
    /\ RecordedOnce("tdt risk list --by-rpn", "risk list --by-rpn")
    /\ RecordedOnce("tdt req list --count", "req list --count")

\* C6 as stated: a finished run has invoked "<kind> list" for each of the five
\* entity kinds, and the four other listings, each recorded as its own result.
C6_PlainListingPerKind ==
    BenchDone =>
        /\ \A k \in Kinds :
              /\ Invocations("tdt " \o k \o " list") /= {}
              /\ \A i \in Invocations("tdt " \o k \o " list") : i <= Len(results)
        /\ OtherListings

\* C6, amended: a finished run has invoked "<kind> list" once for each of
\* the kinds req, cmp, risk and test and never for sup, and once each the
\* structured-output, the filtered, the by-rpn and the count-only listing;
\* each of these eight has its own result; they are all that is invoked
\* between validate --fix and status.
C6_ListBattery ==
    BenchDone =>
        /\ RecordedOnce("tdt req list", "req list (500)")
        /\ RecordedOnce("tdt cmp list", "cmp list (200)")
        /\ RecordedOnce("tdt risk list", "risk list (100)")
        /\ RecordedOnce("tdt test list", "test list (150)")
        /\ Invocations("tdt sup list") = {}
        /\ OtherListings
        /\ \E a \in Invocations("tdt validate --fix"), b \in Invocations("tdt status") :
              b - a - 1 = 8

\* a finished run whose eighth invocation after validate --fix is the
\* count-only listing
C6_Witness ==
    /\ BenchDone
    /\ \E a \in Invocations("tdt validate --fix") :
          /\ invoked[a + 8].cmd = "tdt req list --count"
          /\ results[a + 8].label = "req list --count"
          /\ ~results[a + 8].ok

\* the ordered required fields of each entity kind, from the schema table
Schema ==
    [req |-> <<"title", "type", "priority", "status", "category", "text",
               "rationale", "tags">>,
     cmp |-> <<"part_number", "title", "make_buy", "category", "description",
               "material", "finish", "mass", "cost", "tags">>,
     sup |-> <<"name", "short_name", "category", "contact_name", "contact_email",
               "contact_phone", "website", "tags">>,
     risk |-> <<"title", "type", "category", "description", "failure_mode", "cause",
                "effect", "severity", "occurrence", "detection", "tags">>,
     test |-> <<"title", "type", "level", "method", "category", "priority",
                "objective", "description", "estimated_duration", "tags">>]

SchemaFields(kind) == {Schema[kind][j] : j \in 1..Len(Schema[kind])}

\* C7: in either program the header row of every fixture file written is
\* the schema's ordered field list of the file's entity kind.
C7_HeaderIsSchema ==
    \A p \in DOMAIN files : files[p].header = Schema[files[p].kind]

\* C8: a generator called with n >= 0 returns exactly n rows (none for
\* n = 0), and every row it builds has exactly the schema's fields of its
\* kind, none missing and none extra.
C8_GeneratorShape ==
    gPc /= "idle" =>
        /\ Len(gRows) <= gN
        /\ \A i \in 1..Len(gRows) : DOMAIN gRows[i] = SchemaFields(gKind)
        /\ (gPc = "returned" => Len(gRows) = gN)
        /\ (gPc = "returned" /\ gN = 0 => gRows = <<>>)

\* generate_risks returned two or more rows that differ
C8_Witness ==
    /\ gPc = "returned"
    /\ gKind = "risk"
    /\ gN >= 2
    /\ Len(gRows) = gN
    /\ gRows[1].severity /= gRows[2].severity

\* the text expected in a cell for the values of CsvValueMaps
CellText(v) ==
    CASE v = PyI(0) -> "0"
      [] v = PyI(1) -> "1"
      [] v = PyI(2) -> "2"
      [] v = PyI(3) -> "3"
      [] v = PyS("x") -> "x"
      [] v = PyF(850, 3) -> "0.85"

\* C9: write_csv never fails on the shape of a record; it writes the header
\* row equal to the field order, then one row per record in record order,
\* each with one value per field of the field order, in that order: the
\* record's value of the field, or the empty value when the record has none;
\* a record's fields outside the field order appear nowhere.
C9_WriterProjects ==
    wOut /= NotWritten =>
        /\ wOut.state = "written"
        /\ Len(wOut.content) = Len(wRows) + 1
        /\ wOut.content[1] = wHeaders
        /\ \A i \in 1..Len(wRows) :
              /\ Len(wOut.content[i + 1]) = Len(wHeaders)
              /\ \A j \in 1..Len(wHeaders) :
                    wOut.content[i + 1][j] =
                        IF wHeaders[j] \in DOMAIN wRows[i]
                        THEN CellText(wRows[i][wHeaders[j]])
                        ELSE ""

\* field order a, b; the record a:1, b:2, c:3 gives the row 1,2 and the
\* record a:1 the row 1,<empty>
C9_Witness ==
    /\ wHeaders = <<"a", "b">>
    /\ wRows = <<[a |-> PyI(1), b |-> PyI(2), c |-> PyI(3)], [a |-> PyI(1)]>>
    /\ wOut.state = "written"
    /\ wOut.content = <<<<"a", "b">>, <<"1", "2">>, <<"1", "">>>>

\* C10: the rounded mass lies in [0.01, 2.0] and is a multiple of 0.001, the
\* rounded cost lies in [0.50, 150.0] and is a multiple of 0.01, whatever
\* random.uniform returned.
C10_MassCostInRange ==
    uOut /= NotRounded =>
        /\ uOut % SubSteps = 0
        /\ IF uKind = "mass"
           THEN MassLo * SubSteps <= uOut /\ uOut <= MassHi * SubSteps
           ELSE CostLo * SubSteps <= uOut /\ uOut <= CostHi * SubSteps

\* a draw strictly below 2.0 that round() takes up to 2.0
C10_Witness ==
    /\ uKind = "mass"
    /\ uDraw < MassHi * SubSteps
    /\ uOut = MassHi * SubSteps

(***************************************************************************)
(* C11: the baseline COMPONENTS table against the Component ranges         *)
(***************************************************************************)
\* the mass and the cost of a component record lie in the ranges the
\* benchmark generator draws from: [0.01, 2.0] and [0.50, 150.0]
ComponentInRange(r) ==
    /\ r.mass.t = "float" /\ r.mass.k = 3
    /\ MassLo <= r.mass.n /\ r.mass.n <= MassHi
    /\ r.cost.t = "float" /\ r.cost.k = 2
    /\ CostLo <= r.cost.n /\ r.cost.n <= CostHi

BaselineFile(kind) == OUTPUT_DIR \o "/" \o FixtureOf[kind]

\* C11: every Component record the baseline generator writes to
\* components.csv has its mass in [0.01, 2.0] and its cost in [0.50, 150.0].
C11_BaselineComponentsInRange ==
    (prog = "baseline" /\ BaselineFile("cmp") \in DOMAIN files) =>
        \A i \in 1..Len(files[BaselineFile("cmp")].rows) :
            ComponentInRange(files[BaselineFile("cmp")].rows[i])

(***************************************************************************)
(* C12: the scores of a Risk record                                        *)
(***************************************************************************)
RiskScores == {"severity", "occurrence", "detection"}

RiskScoresInRange(r) ==
    \A f \in RiskScores : r[f].t = "int" /\ 1 <= r[f].n /\ r[f].n <= 10

\* C12: every Risk record of a batch generate_risks builds, and every record
\* of the RISKS table the baseline generator writes, has severity, occurrence
\* and detection each an integer in 1..10.
C12_RiskScoresInRange ==
    /\ gKind = "risk" =>
          \A i \in 1..Len(gRows) : RiskScoresInRange(gRows[i])
    /\ (prog = "baseline" /\ BaselineFile("risk") \in DOMAIN files) =>
          /\ files[BaselineFile("risk")].nrows = Len(RISKS)
          /\ \A i \in 1..Len(files[BaselineFile("risk")].rows) :
                RiskScoresInRange(files[BaselineFile("risk")].rows[i])

\* a returned batch of risks whose scores touch both ends of the range
C12_Witness ==
    /\ gKind = "risk" /\ gPc = "returned" /\ gN = MaxCount
    /\ \E i \in 1..Len(gRows), j \in 1..Len(gRows), f \in RiskScores, g \in RiskScores :
          gRows[i][f].n = 1 /\ gRows[j][g].n = 10

(***************************************************************************)
(* C13: the baseline generator's output is fixed                           *)
(***************************************************************************)
BaselinePath(i) == OUTPUT_DIR \o "/" \o BaseFixtures[i].csv_name

\* the i-th file as the literal tables determine it: header, rows in table
\* order, cell by cell
BaselineOutput(i) ==
    [kind |-> BaseFixtures[i].kind,
     header |-> BaseFixtures[i].headers,
     nrows |-> Len(BaseFixtures[i].rows),
     rows |-> BaseFixtures[i].rows,
     content |-> WriteCsv(BaseFixtures[i].headers, BaseFixtures[i].rows)]

\* C13: a run of the baseline generator has one possible output: whatever
\* any run has written so far is the same five files, in the same order,
\* each with the same header and the same rows in the same order; nothing
\* drawn at random enters them.
C13_BaselineOutputFixed ==
    prog = "baseline" =>
        /\ DOMAIN files \subseteq {BaselinePath(i) : i \in 1..Len(BaseFixtures)}
        /\ \A i \in 1..Len(BaseFixtures) :
              BaselinePath(i) \in DOMAIN files =>
                  /\ files[BaselinePath(i)] = BaselineOutput(i)
                  /\ \A j \in 1..i : BaselinePath(j) \in DOMAIN files
        /\ pc \in {"print", "done"} =>
              \A i \in 1..Len(BaseFixtures) : BaselinePath(i) \in DOMAIN files

\* a finished run of the baseline generator, all five files written
C13_Witness ==
    /\ prog = "baseline" /\ pc = "done" /\ exitCode = 0
    /\ Cardinality(DOMAIN files) = Len(BaseFixtures)
    /\ \A i \in 1..Len(BaseFixtures) : files[BaselinePath(i)].nrows > 0

(***************************************************************************)
(* C14: part numbers within one batch                                      *)
(***************************************************************************)
PartNumbersDistinct(rows) ==
    \A i \in 1..Len(rows), j \in 1..Len(rows) :
        i /= j => rows[i].part_number /= rows[j].part_number

\* C14: the rows of one batch of generate_components carry pairwise distinct
\* part numbers, also where the suffix i + 1 passes four digits, and so do
\* the rows of the COMPONENTS table the baseline generator writes.
C14_PartNumbersDistinct ==
    /\ gKind = "cmp" => PartNumbersDistinct(gRows)
    /\ (prog = "baseline" /\ BaselineFile("cmp") \in DOMAIN files) =>
          /\ files[BaselineFile("cmp")].nrows = Len(COMPONENTS)
          /\ PartNumbersDistinct(files[BaselineFile("cmp")].rows)

\* the first row of a batch and the row of suffix 10001, which agree in
\* their last four digits
C14_Witness ==
    /\ gKind = "cmp" /\ gPc = "picked" /\ gN > 9999
    /\ gRows[1].part_number = PyS("PN-0001")
    /\ gRows[2].part_number = PyS("PN-10001")

(***************************************************************************)
(* C15: the run is sequential                                              *)
(***************************************************************************)
\* target-tool processes started and not yet exited
InFlight == Len(invoked) - Len(exits)

FixturesWritten ==
    \A i \in 1..Len(BenchFixtures) :
        /\ (csv_dir \o "/" \o BenchFixtures[i].csv_name) \in DOMAIN files
        /\ files[csv_dir \o "/" \o BenchFixtures[i].csv_name].nrows = BenchFixtures[i].n

\* C15: at most one target-tool process is in flight, and it is the one
\* invoked last; every earlier one has exited and has its result recorded;
\* while one is in flight nothing else starts, is recorded or is written;
\* all five fixture files are written before the first invocation and no
\* file is written after it.
C15_Sequential ==
    /\ [](/\ InFlight = (IF child = NoChild THEN 0 ELSE 1)
          /\ child /= NoChild => invoked[Len(invoked)].cmd = child
          /\ Len(results) = Len(exits)
          /\ invoked /= <<>> => FixturesWritten)
    /\ [][/\ invoked /= <<>> => files' = files
          /\ child /= NoChild =>
                /\ invoked' = invoked
                /\ Len(results') = Len(results) + 1
                /\ child' = NoChild]_vars

\* the second invocation in flight, the first one exited and recorded
C15_Witness ==
    /\ child /= NoChild
    /\ Len(invoked) = 2 /\ Len(exits) = 1 /\ Len(results) = 1
    /\ FixturesWritten

(***************************************************************************)
(* C16: no retry                                                           *)
(***************************************************************************)
\* the labels of the phases of each group
ImportLabels == {ImportLabel(ImportList[i]) : i \in 1..Len(ImportList)}
ValidateLabels == {"validate", "validate --fix"}
ListLabels == {ListBattery[i].label : i \in 1..Len(ListBattery)}
StatusLabels == {StatusBattery[i].label : i \in 1..Len(StatusBattery)}
CacheLabels == {CacheBattery[i].label : i \in 1..Len(CacheBattery)}

\* the results recorded under one of the given labels
Recorded(labels) == Cardinality({i \in 1..Len(results) : results[i].label \in labels})

\* C16: no phase is attempted twice.  Whether the last result recorded is a
\* success or a failure, the invocation started next is that of the phase
\* after it; no label is recorded twice; and a finished run has made 26
\* invocations and recorded 26 results: 1 init, 5 imports, 2 validations,
\* 8 listings, 7 status/report/trace commands and 3 cache commands.
C16_NoRetry ==
    /\ [](prog = "benchmark" =>
            /\ Len(results) <= Len(invoked) /\ Len(invoked) <= 26
            /\ Cardinality({results[i].label : i \in 1..Len(results)}) = Len(results)
            /\ pc = "done" =>
                  /\ Len(invoked) = 26 /\ Len(results) = 26
                  /\ Recorded({"tdt init"}) = 1
                  /\ Recorded(ImportLabels) = 5
                  /\ Recorded(ValidateLabels) = 2
                  /\ Recorded(ListLabels) = 8
                  /\ Recorded(StatusLabels) = 7
                  /\ Recorded(CacheLabels) = 3)
    /\ [][invoked' /= invoked =>
            /\ Len(invoked') = Len(results) + 1
            /\ invoked'[Len(invoked')].cmd = PhaseCommands[Len(results) + 1]]_vars

\* a finished run whose first and last phases failed and whose second did not
C16_Witness ==
    /\ BenchDone
    /\ Len(results) = 26
    /\ ~results[1].ok /\ results[2].ok /\ ~results[26].ok

(***************************************************************************)
(* C17: a failure of the setup ends the run                                *)
(***************************************************************************)
\* the steps of benchmark.py's main() before the first run_timed
SetupSteps == {"mkdtemp", "makedirs_csv", "makedirs_project", "generate", "chdir"}

\* C17: in a benchmark run an error is raised only by a setup step
\* (provisioning the workspace, generating and writing a fixture, entering
\* the project directory); the run then ends at once with the error
\* uncaught: no target-tool command has been or is ever invoked, no result
\* is recorded and no summary is produced.  Hence a run that invokes a
\* command has its workspace provisioned and all five fixtures written.
C17_SetupFailureEndsRun ==
    /\ [](prog = "benchmark" =>
            /\ pc = "raised" =>
                  /\ invoked = <<>> /\ child = NoChild
                  /\ results = <<>>
                  /\ summary = NoSummary
                  /\ exitCode = 1
            /\ invoked /= <<>> =>
                  /\ {work_dir, csv_dir, project_dir} \subseteq dirs
                  /\ FixturesWritten
                  /\ cwd = project_dir)
    /\ [][prog = "benchmark" =>
            /\ pc' = "raised" => pc \in SetupSteps \cup {"raised"}
            /\ pc = "raised" => UNCHANGED vars]_vars

\* the run ended by a failure to write the third fixture file
C17_Witness ==
    /\ prog = "benchmark" /\ pc = "raised" /\ exitCode = 1
    /\ Cardinality(DOMAIN files) = 2
    /\ invoked = <<>> /\ results = <<>>

(***************************************************************************)
(* C18: the working directory of the invocations                           *)
(***************************************************************************)
\* C18: every target-tool invocation of a benchmark run starts with the
\* project directory as its working directory.  The working directory
\* changes once, from the directory the program was started in to the
\* project directory, before the first invocation, and never again.
C18_InvokedInProjectDir ==
    /\ [](prog = "benchmark" =>
            /\ \A i \in 1..Len(invoked) : invoked[i].cwd = project_dir
            /\ cwd \in {StartDir, project_dir}
            /\ pc \in {"init", "import", "validate", "validate_fix", "list", "status",
                       "cache", "summary", "done"} => cwd = project_dir)
    /\ [][cwd' /= cwd =>
            /\ cwd = StartDir /\ cwd' = project_dir
            /\ pc = "chdir" /\ invoked = <<>>]_vars

\* a finished run: the first and the last invocation started in the
\* project directory, which is still the working directory
C18_Witness ==
    /\ BenchDone
    /\ Len(invoked) = Len(PhaseCommands)
    /\ invoked[1].cwd = project_dir
    /\ invoked[Len(invoked)].cwd = project_dir
    /\ cwd = project_dir /\ cwd /= StartDir

(***************************************************************************)
(* C19: the aggregates of the summary                                      *)
(***************************************************************************)
\* the elapsed times of the first n results, added from the last one down
RECURSIVE ElapsedUpTo(_)
ElapsedUpTo(n) == IF n = 0 THEN 0 ELSE results[n].elapsed + ElapsedUpTo(n - 1)

\* C19: the summary printed reports the sum of the elapsed times of all the
\* results recorded, the number of them whose success flag is false (which
\* is the number of invocations that exited non-zero), the length of the
\* sequence, and the sum of the five configured volumes.
C19_SummaryAggregates ==
    summary.printed =>
        /\ summary.total_time = ElapsedUpTo(Len(results))
        /\ summary.failed = Len(results) - Cardinality({i \in 1..Len(results) : results[i].ok})
        /\ summary.failed = Cardinality({i \in 1..Len(exits) : exits[i] /= 0})
        /\ summary.operations = Len(results)
        /\ summary.operations = Len(invoked)
        /\ summary.total_entities
              = NUM_REQUIREMENTS + NUM_COMPONENTS + NUM_SUPPLIERS + NUM_RISKS + NUM_TESTS
        /\ summary.total_entities = 970

\* a summary over results that all failed, of which two took time and the
\* last one none
C19_Witness ==
    /\ summary.printed
    /\ summary.total_time >= 2
    /\ \E i \in 1..Len(results), j \in 1..Len(results) :
          i < j /\ j < Len(results) /\ results[i].elapsed > 0 /\ results[j].elapsed > 0
    /\ results[Len(results)].elapsed = 0
    /\ summary.failed = Len(results)

(***************************************************************************)
(* C20: the implied throughput                                             *)
(***************************************************************************)
\* C20: the rate computed for a phase is never a division error; it is the
\* quotient count / elapsed when elapsed > 0, and 0 when elapsed <= 0.
C20_RateGuarded ==
    tRate /= NoRate =>
        /\ tRate.value.t /= "ZeroDivisionError"
        /\ tElapsed > 0 =>
              /\ tRate.value.t = "float"
              /\ tRate.value.den > 0
              /\ tRate.value.num * tElapsed = tCount * tRate.value.den
        /\ tElapsed <= 0 =>
              /\ tRate.value.t = "int"
              /\ tRate.value.num = 0

\* an import of 500 entities that took no measurable time: the rate is 0
C20_Witness ==
    /\ tRate /= NoRate
    /\ tCount = NUM_REQUIREMENTS /\ tElapsed = 0
    /\ tRate.value = IntZero

(***************************************************************************)
(* C21: the parent directory of a fixture file                             *)
(***************************************************************************)
\* the paths the benchmark driver writes, and those its import loop names
BenchPaths == {csv_dir \o "/" \o BenchFixtures[i].csv_name : i \in 1..Len(BenchFixtures)}
ImportPaths == [i \in 1..Len(ImportList) |-> csv_dir \o "/" \o ImportList[i].csv_name]
ImportCmds ==
    [i \in 1..Len(ImportList) |->
        TDT_BIN \o " import " \o ImportList[i].etype \o " " \o ImportPaths[i]]
BasePaths == {BaselinePath(i) : i \in 1..Len(BaseFixtures)}

\* C21: a fixture file is written only into a directory that already
\* exists.  The benchmark driver reaches its first write_csv call with the
\* workspace and its data and project subdirectories created and no file
\* written yet; it writes its fixtures in the data subdirectory only, and
\* each import command names one of the paths written.  The baseline
\* generator reaches its first write_csv call with its output directory
\* created and writes in that directory only.  No directory is removed.
C21_ParentDirExists ==
    /\ [](/\ prog = "benchmark" =>
               /\ pc = "generate" =>
                     /\ {work_dir, csv_dir, project_dir} \subseteq dirs
                     /\ idx = 1 => files = <<>>
               /\ DOMAIN files \subseteq BenchPaths
               /\ files /= <<>> => csv_dir \in dirs
               /\ \A i \in 1..Len(ImportList) :
                     Len(invoked) > i =>
                         /\ invoked[i + 1].cmd = ImportCmds[i]
                         /\ ImportPaths[i] \in DOMAIN files
          /\ prog = "baseline" =>
               /\ pc = "write" =>
                     /\ OUTPUT_DIR \in dirs
                     /\ idx = 1 => files = <<>>
               /\ DOMAIN files \subseteq BasePaths
               /\ files /= <<>> => OUTPUT_DIR \in dirs)
    /\ [][/\ dirs \subseteq dirs'
          /\ DOMAIN files' /= DOMAIN files =>
                /\ dirs' = dirs
                /\ prog = "benchmark" => pc = "generate" /\ csv_dir \in dirs
                /\ prog = "baseline" => pc = "write" /\ OUTPUT_DIR \in dirs]_vars

\* the last import in flight, naming a path written in the data directory
C21_Witness ==
    /\ prog = "benchmark"
    /\ child = ImportCmds[Len(ImportList)]
    /\ DOMAIN files = BenchPaths
    /\ {work_dir, csv_dir, project_dir} \subseteq dirs

====
